---- MODULE Spec2Model ----
(***************************************************************************)
(* Camera and CameraController of the agl game engine                      *)
(* (gamelib/src/Camera.cpp, gamelib/src/CameraController.cpp).             *)
(*                                                                         *)
(* Every float of the program is a fixed-point integer in thousandths:     *)
(* 75.0 degrees is 75000, 0.5 seconds is 500, the unit vector component    *)
(* 1.0 is 1000.  Products and quotients round to the nearest thousandth    *)
(* (ties away from zero).  sin/cos are a one-degree table with linear      *)
(* interpolation; asin/atan2 invert that table, interpolating likewise.    *)
(* Vectors are tuples <<x, y, z>> (or <<x, y>>).                           *)
(***************************************************************************)
EXTENDS Integers, Sequences, FiniteSets, TLC

VARIABLES ctl, cam, inp, hist

vars == <<ctl, cam, inp, hist>>

-----------------------------------------------------------------------------
(* Fixed-point arithmetic.                                                 *)

\* 1.0 in thousandths
One == 10 * 100

Abs(a) == IF a < 0 THEN -a ELSE a

Max(a, b) == IF a < b THEN b ELSE a

Min(a, b) == IF b < a THEN b ELSE a

\* n / d rounded to the nearest integer, ties away from zero (d > 0)
RDiv(n, d) == IF n >= 0 THEN (2 * n + d) \div (2 * d)
              ELSE -((2 * (-n) + d) \div (2 * d))

\* a * b of two fixed-point numbers
FMul(a, b) == RDiv(a * b, One)

\* a / b of two fixed-point numbers (b # 0)
FDiv(a, b) == IF b > 0 THEN RDiv(a * One, b) ELSE RDiv((-a) * One, -b)

\* std::clamp(v, lo, hi)
Clamp(v, lo, hi) == IF v < lo THEN lo ELSE IF hi < v THEN hi ELSE v

\* glm::mix(x, y, a) = x * (1 - a) + y * a
Mix(x, y, a) == RDiv(x * (One - a) + y * a, One)

RECURSIVE SqrtSearch(_, _, _)
SqrtSearch(n, lo, hi) ==
    IF hi - lo <= 1 THEN lo
    ELSE LET mid == (lo + hi) \div 2
         IN  IF mid * mid <= n THEN SqrtSearch(n, mid, hi)
             ELSE SqrtSearch(n, lo, mid)

\* floor of the square root of n, 0 <= n < 46000^2
FloorSqrt(n) == SqrtSearch(n, 0, 46000)

\* the square root of n rounded to the nearest integer
ISqrt(n) == LET r == FloorSqrt(n)
            IN  IF n - r * r > r THEN r + 1 ELSE r

-----------------------------------------------------------------------------
(* Trigonometry in degrees (thousandths of a degree in, thousandths out).  *)

SinTable ==
    << 0, 17, 35, 52, 70, 87, 105, 122, 139, 156, 174, 191, 208,
       225, 242, 259, 276, 292, 309, 326, 342, 358, 375, 391, 407, 423,
       438, 454, 469, 485, 500, 515, 530, 545, 559, 574, 588, 602, 616,
       629, 643, 656, 669, 682, 695, 707, 719, 731, 743, 755, 766, 777,
       788, 799, 809, 819, 829, 839, 848, 857, 866, 875, 883, 891, 899,
       906, 914, 921, 927, 934, 940, 946, 951, 956, 961, 966, 970, 974,
       978, 982, 985, 988, 990, 993, 995, 996, 998, 999, 999, 1000, 1000 >>

\* sin of an angle in [0, 90] degrees
SinQuadrant(a) ==
    LET d == a \div One
        f == a % One
    IN  IF d >= 90 THEN One
        ELSE RDiv(SinTable[d + 1] * (One - f) + SinTable[d + 2] * f, One)

\* sin of an angle in [0, 360) degrees
SinTurn(a) ==
    IF a <= 90 * One THEN SinQuadrant(a)
    ELSE IF a <= 180 * One THEN SinQuadrant(180 * One - a)
    ELSE IF a <= 270 * One THEN -SinQuadrant(a - 180 * One)
    ELSE -SinQuadrant(360 * One - a)

\* sin(glm::radians(a))
Sin(a) == SinTurn(a % (360 * One))

\* cos(glm::radians(a))
Cos(a) == Sin(a + 90 * One)

RECURSIVE AsinFloor(_, _, _)
\* the greatest whole degree d in lo..hi with sin d <= s (sin lo <= s)
AsinFloor(s, lo, hi) ==
    IF lo = hi THEN lo
    ELSE IF Sin(((lo + hi + 1) \div 2) * One) <= s
    THEN AsinFloor(s, (lo + hi + 1) \div 2, hi)
    ELSE AsinFloor(s, lo, (lo + hi + 1) \div 2 - 1)

\* the angle between the whole degrees d and d + 1 whose sine is s, the sine
\* taken as linear between the two (sin d <= s)
AsinBetween(s, d) ==
    IF d >= 90 \/ Sin((d + 1) * One) <= Sin(d * One) THEN d * One
    ELSE d * One + RDiv((s - Sin(d * One)) * One, Sin((d + 1) * One) - Sin(d * One))

\* glm::degrees(asin(s)), 0 <= s <= 1
AsinQuadrant(s) == AsinBetween(s, AsinFloor(s, 0, 90))

\* glm::degrees(asin(s)), -1 <= s <= 1
AsinDeg(s) == IF s < 0 THEN -AsinQuadrant(-s) ELSE AsinQuadrant(s)

\* glm::degrees(atan2(z, x)) of a unit direction (x, z), from the smaller of the
\* two components, where asin is well conditioned
Atan2Unit(z, x) ==
    IF Abs(z) <= Abs(x)
    THEN IF x > 0 THEN AsinDeg(z)
         ELSE IF z >= 0 THEN 180 * One - AsinDeg(z)
         ELSE -180 * One - AsinDeg(z)
    ELSE IF z > 0 THEN 90 * One - AsinDeg(x)
         ELSE AsinDeg(x) - 90 * One

\* glm::degrees(atan2(z, x)) given the length len of (x, z)
Atan2Len(z, x, len) == Atan2Unit(RDiv(z * One, len), RDiv(x * One, len))

\* glm::degrees(atan2(z, x)), in (-180, 180];
\* atan2(0, 0) is 0
Atan2Deg(z, x) ==
    IF z = 0 /\ x = 0 THEN 0 ELSE Atan2Len(z, x, ISqrt(x * x + z * z))

-----------------------------------------------------------------------------
(* glm vectors.                                                            *)

Vec3Zero == <<0, 0, 0>>

Vec2Zero == <<0, 0>>

VAdd(a, b) == <<a[1] + b[1], a[2] + b[2], a[3] + b[3]>>

VSub(a, b) == <<a[1] - b[1], a[2] - b[2], a[3] - b[3]>>

VScale(a, s) == <<FMul(a[1], s), FMul(a[2], s), FMul(a[3], s)>>

VDot(a, b) == RDiv(a[1] * b[1] + a[2] * b[2] + a[3] * b[3], One)

VCross(a, b) == << RDiv(a[2] * b[3] - a[3] * b[2], One),
                   RDiv(a[3] * b[1] - a[1] * b[3], One),
                   RDiv(a[1] * b[2] - a[2] * b[1], One) >>

\* glm::length
VLength(a) == ISqrt(a[1] * a[1] + a[2] * a[2] + a[3] * a[3])

VMix(a, b, t) == <<Mix(a[1], b[1], t), Mix(a[2], b[2], t), Mix(a[3], b[3], t)>>

V2Mix(a, b, t) == <<Mix(a[1], b[1], t), Mix(a[2], b[2], t)>>

\* the value of a float that is not a number: glm::normalize of a zero vector
\* divides 0 by 0
NaN == -(2 ^ 30)

NaNVec == <<NaN, NaN, NaN>>

\* a / len for a vector a of length len # 0
VOverLength(a, len) ==
    <<RDiv(a[1] * One, len), RDiv(a[2] * One, len), RDiv(a[3] * One, len)>>

\* the vector a taken k times, k a whole number
VTimes(a, k) == <<a[1] * k, a[2] * k, a[3] * k>>

\* the unit vector along a short vector a # 0: a is magnified to a length near
\* 30 before its length is taken, for the thousandths of that length to count
\* as little as a float's rounding does
VNormalizeShort(a, k) == VOverLength(VTimes(a, k), VLength(VTimes(a, k)))

\* glm::normalize
VNormalize(a) ==
    IF VLength(a) = 0 THEN NaNVec
    ELSE IF VLength(a) < One \div 2 THEN VNormalizeShort(a, (30 * One) \div VLength(a))
    ELSE VOverLength(a, VLength(a))

-----------------------------------------------------------------------------
(* Camera (gamelib/include/Camera.h, gamelib/src/Camera.cpp).              *)

YAW == -90000
PITCH == 0
ROLL == 0
SPEED == 2500
SENSITIVITY == 100
ZOOM == 45000
NEAR_PLANE == 100
FAR_PLANE == 1000000

\* std::clamp bounds of the pitch and of the zoom
PitchLimit == 89000
ZoomMin == 1000
ZoomMax == 120000

\* 16.0f / 9.0f
DefaultAspect == RDiv(16 * One, 9)

IsNaNVec(v) == \E i \in 1..Len(v) : v[i] = NaN

\* a + b of two floats, either of which may be NaN
NAdd(a, b) == IF a = NaN \/ b = NaN THEN NaN ELSE a + b

\* a + b of two vectors, either of which may hold NaN
NVAdd(a, b) == IF IsNaNVec(a) \/ IsNaNVec(b) THEN NaNVec ELSE VAdd(a, b)

\* x * s of a vector that may hold NaN
NVScale(a, s) == IF IsNaNVec(a) \/ s = NaN THEN NaNVec ELSE VScale(a, s)

\* glm::mix of two vectors, either of which may hold NaN
NVMix(a, b, t) == IF IsNaNVec(a) \/ IsNaNVec(b) THEN NaNVec ELSE VMix(a, b, t)

\* std::clamp(v, lo, hi) of a float that may be NaN: every comparison with NaN
\* is false, and v is returned
NClamp(v, lo, hi) == IF v = NaN THEN NaN ELSE Clamp(v, lo, hi)

\* glm::rotate(mat4(1), radians(angle), axis) applied to v (axis a unit vector)
RotateAbout(v, axis, angle) ==
    LET c == Cos(angle)
        s == Sin(angle)
    IN  VAdd(VAdd(VScale(v, c), VScale(VCross(axis, v), s)),
             VScale(axis, FMul(VDot(axis, v), One - c)))

\* the front vector of the Euler angles
FrontOf(yaw, pitch) ==
    VNormalize(<< FMul(Cos(yaw), Cos(pitch)), Sin(pitch), FMul(Sin(yaw), Cos(pitch)) >>)

\* the tail of UpdateCameraVectors: the roll rotation of Right and Up
VectorsRolled(c, front, right, up) ==
    IF Abs(c.Roll) > 1 /\ ~IsNaNVec(right) /\ ~IsNaNVec(up)
    THEN [c EXCEPT !.Front = front,
                   !.Right = RotateAbout(right, front, c.Roll),
                   !.Up = RotateAbout(up, front, c.Roll)]
    ELSE [c EXCEPT !.Front = front, !.Right = right, !.Up = up]

\* UpdateCameraVectors from Right on: Up = normalize(cross(Right, Front))
VectorsFromRight(c, front, right) ==
    VectorsRolled(c, front, right,
                  IF IsNaNVec(right) THEN NaNVec ELSE VNormalize(VCross(right, front)))

\* UpdateCameraVectors from Front on: Right = normalize(cross(Front, WorldUp))
VectorsFromFront(c, front) ==
    VectorsFromRight(c, front, VNormalize(VCross(front, c.WorldUp)))

\* UpdateCameraVectors that takes Right = cross(Front, WorldUp) as it comes
Mutant_UpdateCameraVectors(c) ==
    IF c.Yaw = NaN \/ c.Pitch = NaN
    THEN [c EXCEPT !.Front = NaNVec, !.Right = NaNVec, !.Up = NaNVec]
    ELSE VectorsFromRight(c, FrontOf(c.Yaw, c.Pitch),
                          VCross(FrontOf(c.Yaw, c.Pitch), c.WorldUp))

Camera_UpdateCameraVectors(c) ==
    IF c.Yaw = NaN \/ c.Pitch = NaN
    THEN [c EXCEPT !.Front = NaNVec, !.Right = NaNVec, !.Up = NaNVec]
    ELSE VectorsFromFront(c, FrontOf(c.Yaw, c.Pitch))

\* Camera::Camera(position, up, yaw, pitch, roll)
Camera_New(position, up, yaw, pitch, roll) ==
    Camera_UpdateCameraVectors(
        [ Position |-> position, WorldUp |-> up,
          Yaw |-> yaw, Pitch |-> pitch, Roll |-> roll,
          Front |-> <<0, 0, -One>>, Right |-> Vec3Zero, Up |-> Vec3Zero,
          MovementSpeed |-> SPEED, MouseSensitivity |-> SENSITIVITY, Zoom |-> ZOOM,
          NearPlane |-> NEAR_PLANE, FarPlane |-> FAR_PLANE, AspectRatio |-> DefaultAspect,
          OrthoLeft |-> -10 * One, OrthoRight |-> 10 * One,
          OrthoBottom |-> -10 * One, OrthoTop |-> 10 * One,
          Type |-> "Perspective" ])

Camera_SetPosition(c, position) == [c EXCEPT !.Position = position]

\* ProcessMouseMovement that clamps the pitch from above only
Mutant_ProcessMouseMovement(c, xoffset, yoffset, constrainPitch) ==
    Camera_UpdateCameraVectors(
        [c EXCEPT !.Yaw = NAdd(c.Yaw, FMul(xoffset, c.MouseSensitivity)),
                  !.Pitch = IF constrainPitch
                            THEN Min(NAdd(c.Pitch, FMul(yoffset, c.MouseSensitivity)),
                                     PitchLimit)
                            ELSE NAdd(c.Pitch, FMul(yoffset, c.MouseSensitivity))])

Camera_ProcessMouseMovement(c, xoffset, yoffset, constrainPitch) ==
    LET dx    == FMul(xoffset, c.MouseSensitivity)
        dy    == FMul(yoffset, c.MouseSensitivity)
        pitch == NAdd(c.Pitch, dy)
    IN  Camera_UpdateCameraVectors(
            [c EXCEPT !.Yaw = NAdd(c.Yaw, dx),
                      !.Pitch = IF constrainPitch
                                THEN NClamp(pitch, -PitchLimit, PitchLimit)
                                ELSE pitch])

\* ProcessMouseScroll that adds the offset instead of subtracting it
Mutant_ProcessMouseScroll(c, yoffset) ==
    [c EXCEPT !.Zoom = Clamp(c.Zoom + yoffset, ZoomMin, ZoomMax)]

Camera_ProcessMouseScroll(c, yoffset) ==
    [c EXCEPT !.Zoom = Clamp(c.Zoom - yoffset, ZoomMin, ZoomMax)]

Camera_SetRotation(c, yaw, pitch, roll) ==
    Camera_UpdateCameraVectors(
        [c EXCEPT !.Yaw = yaw, !.Pitch = Clamp(pitch, -PitchLimit, PitchLimit),
                  !.Roll = roll])

\* LookAt once the direction to the target is known
LookAlong(c, direction) ==
    IF IsNaNVec(direction)
    THEN Camera_UpdateCameraVectors([c EXCEPT !.Yaw = NaN, !.Pitch = NaN])
    ELSE Camera_UpdateCameraVectors(
             [c EXCEPT !.Yaw = Atan2Deg(direction[3], direction[1]),
                       !.Pitch = Clamp(AsinDeg(-direction[2]), -PitchLimit, PitchLimit)])

Camera_LookAt(c, target) ==
    LookAlong(c, IF IsNaNVec(c.Position) THEN NaNVec
                 ELSE VNormalize(VSub(target, c.Position)))

Camera_SetPerspective(c, fov, aspectRatio, nearPlane, farPlane) ==
    [c EXCEPT !.Type = "Perspective", !.Zoom = fov, !.AspectRatio = aspectRatio,
              !.NearPlane = nearPlane, !.FarPlane = farPlane]

Camera_SetOrthographic(c, left, right, bottom, top, nearPlane, farPlane) ==
    [c EXCEPT !.Type = "Orthographic", !.OrthoLeft = left, !.OrthoRight = right,
              !.OrthoBottom = bottom, !.OrthoTop = top,
              !.NearPlane = nearPlane, !.FarPlane = farPlane]

\* Reset that does not recompute the vectors
Mutant_CameraReset(c) ==
    [c EXCEPT !.Position = Vec3Zero, !.WorldUp = <<0, One, 0>>,
              !.Yaw = YAW, !.Pitch = PITCH, !.Roll = ROLL,
              !.MovementSpeed = SPEED, !.MouseSensitivity = SENSITIVITY,
              !.Zoom = ZOOM]

Camera_Reset(c) ==
    Camera_UpdateCameraVectors(
        [c EXCEPT !.Position = Vec3Zero, !.WorldUp = <<0, One, 0>>,
                  !.Yaw = YAW, !.Pitch = PITCH, !.Roll = ROLL,
                  !.MovementSpeed = SPEED, !.MouseSensitivity = SENSITIVITY,
                  !.Zoom = ZOOM])

-----------------------------------------------------------------------------
(* CameraController (gamelib/include/CameraController.h,                   *)
(* gamelib/src/CameraController.cpp).  The controller's operations map a   *)
(* world w = [ctl |-> the controller's fields, cam |-> the camera it       *)
(* shares] to the world after the call.  ctl.camera and ctl.input say      *)
(* whether m_camera and m_input are bound (non-null).                      *)

Modes == {"FirstPerson", "ThirdPerson", "Spectator", "Fixed"}

\* struct CameraSettings, with its default member initialisers
DefaultSettings ==
    [ movementSpeed |-> 5 * One, sprintMultiplier |-> 2 * One, crouchMultiplier |-> 500,
      mouseSensitivity |-> 100, invertY |-> FALSE,
      movementSmoothing |-> 100, rotationSmoothing |-> 100,
      thirdPersonDistance |-> 5 * One, thirdPersonHeight |-> 2 * One,
      thirdPersonOffset |-> Vec3Zero,
      constrainPitch |-> TRUE, minPitch |-> -89 * One, maxPitch |-> 89 * One,
      defaultFOV |-> 75 * One, sprintFOV |-> 85 * One, aimFOV |-> 50 * One,
      fovTransitionSpeed |-> 5 * One,
      shakeIntensity |-> One, shakeDamping |-> 5 * One ]

\* CameraController::CameraController()
Controller_New ==
    [ camera |-> FALSE, input |-> FALSE, mode |-> "FirstPerson",
      settings |-> DefaultSettings, target |-> Vec3Zero,
      isAiming |-> FALSE, isSprinting |-> FALSE, isCrouching |-> FALSE,
      inputEnabled |-> TRUE, smoothingEnabled |-> TRUE,
      velocitySmooth |-> Vec3Zero, rotationSmooth |-> Vec2Zero,
      targetFOV |-> 75 * One, currentFOV |-> 75 * One,
      shakeIntensity |-> 0, shakeDuration |-> 0, shakeTimer |-> 0,
      shakeOffset |-> Vec3Zero,
      firstMouse |-> TRUE, lastMouseX |-> 0, lastMouseY |-> 0,
      \* not a field of the class: whether a call has dereferenced a null m_camera
      fault |-> FALSE ]

\* the key bindings (GetMoveForwardKey .. GetSprintKey)
Keys == {"W", "S", "A", "D", "SPACE", "LEFT_CONTROL", "LEFT_SHIFT"}

SetCtl(w, c) == [w EXCEPT !.ctl = c]

Controller_SetCamera(w, bound) ==
    IF bound
    THEN SetCtl(w, [w.ctl EXCEPT !.camera = TRUE,
                                 !.targetFOV = w.ctl.settings.defaultFOV,
                                 !.currentFOV = w.ctl.settings.defaultFOV])
    ELSE SetCtl(w, [w.ctl EXCEPT !.camera = FALSE])

Controller_Initialize(w, bound) ==
    IF w.ctl.camera
    THEN [ ctl |-> [w.ctl EXCEPT !.input = bound,
                                 !.targetFOV = w.ctl.settings.defaultFOV,
                                 !.currentFOV = w.ctl.settings.defaultFOV],
           cam |-> Camera_SetPerspective(w.cam, w.ctl.settings.defaultFOV,
                                         w.cam.AspectRatio, NEAR_PLANE, FAR_PLANE) ]
    ELSE SetCtl(w, [w.ctl EXCEPT !.input = bound])

\* SetMode that forgets the rotation accumulator
Mutant_SetMode(w, mode) ==
    IF w.ctl.mode # mode
    THEN SetCtl(w, [w.ctl EXCEPT !.mode = mode, !.velocitySmooth = Vec3Zero])
    ELSE w

Controller_SetMode(w, mode) ==
    IF w.ctl.mode # mode
    THEN SetCtl(w, [w.ctl EXCEPT !.mode = mode,
                                 !.velocitySmooth = Vec3Zero,
                                 !.rotationSmooth = Vec2Zero])
    ELSE w

Controller_SetSettings(w, settings) ==
    [ ctl |-> [w.ctl EXCEPT !.settings = settings],
      cam |-> IF w.ctl.camera
              THEN [w.cam EXCEPT !.MovementSpeed = settings.movementSpeed,
                                 !.MouseSensitivity = settings.mouseSensitivity]
              ELSE w.cam ]

Controller_SetTarget(w, target) == SetCtl(w, [w.ctl EXCEPT !.target = target])

Controller_SetPosition(w, position) ==
    IF w.ctl.camera THEN [w EXCEPT !.cam = Camera_SetPosition(w.cam, position)] ELSE w

Controller_StartAiming(w) ==
    IF ~w.ctl.isAiming
    THEN SetCtl(w, [w.ctl EXCEPT !.isAiming = TRUE, !.targetFOV = w.ctl.settings.aimFOV])
    ELSE w

\* StopAiming that forgets the sprint: always back to defaultFOV
Mutant_StopAiming(w) ==
    IF w.ctl.isAiming
    THEN SetCtl(w, [w.ctl EXCEPT !.isAiming = FALSE,
                                 !.targetFOV = w.ctl.settings.defaultFOV])
    ELSE w

Controller_StopAiming(w) ==
    IF w.ctl.isAiming
    THEN SetCtl(w, [w.ctl EXCEPT !.isAiming = FALSE,
                                 !.targetFOV = IF w.ctl.isSprinting
                                               THEN w.ctl.settings.sprintFOV
                                               ELSE w.ctl.settings.defaultFOV])
    ELSE w

Controller_StartSprinting(w) ==
    IF ~w.ctl.isSprinting
    THEN SetCtl(w, [w.ctl EXCEPT !.isSprinting = TRUE,
                                 !.targetFOV = IF ~w.ctl.isAiming
                                               THEN w.ctl.settings.sprintFOV
                                               ELSE @])
    ELSE w

Controller_StopSprinting(w) ==
    IF w.ctl.isSprinting
    THEN SetCtl(w, [w.ctl EXCEPT !.isSprinting = FALSE,
                                 !.targetFOV = IF ~w.ctl.isAiming
                                               THEN w.ctl.settings.defaultFOV
                                               ELSE @])
    ELSE w

Controller_StartCrouching(w) ==
    IF ~w.ctl.isCrouching THEN SetCtl(w, [w.ctl EXCEPT !.isCrouching = TRUE]) ELSE w

Controller_StopCrouching(w) ==
    IF w.ctl.isCrouching THEN SetCtl(w, [w.ctl EXCEPT !.isCrouching = FALSE]) ELSE w

\* AddShake that replaces the running shake instead of extending it
Mutant_AddShake(w, intensity, duration) ==
    SetCtl(w, [w.ctl EXCEPT
        !.shakeIntensity = FMul(intensity, w.ctl.settings.shakeIntensity),
        !.shakeDuration = duration,
        !.shakeTimer = duration])

Controller_AddShake(w, intensity, duration) ==
    LET dur == Max(w.ctl.shakeDuration, duration)
    IN  SetCtl(w, [w.ctl EXCEPT
            !.shakeIntensity = Max(@, FMul(intensity, w.ctl.settings.shakeIntensity)),
            !.shakeDuration = dur,
            !.shakeTimer = dur])

Controller_ClearShake(w) ==
    SetCtl(w, [w.ctl EXCEPT !.shakeIntensity = 0, !.shakeDuration = 0,
                            !.shakeTimer = 0, !.shakeOffset = Vec3Zero])

Controller_SetFOV(w, fov) == SetCtl(w, [w.ctl EXCEPT !.targetFOV = fov])

Controller_SetInputEnabled(w, enabled) == SetCtl(w, [w.ctl EXCEPT !.inputEnabled = enabled])

Controller_SetSmoothingEnabled(w, enabled) ==
    SetCtl(w, [w.ctl EXCEPT !.smoothingEnabled = enabled])

\* the sum of the basis vectors of the held direction keys (ProcessKeyboard's
\* "movement" before it is normalised)
MovementOf(c, keys) ==
    LET term(k, v, sign) == IF k \in keys THEN NVScale(v, sign * One) ELSE Vec3Zero
    IN  NVAdd(NVAdd(NVAdd(NVAdd(term("W", c.Front, 1), term("S", c.Front, -1)),
                          term("A", c.Right, -1)),
                    term("D", c.Right, 1)),
              term("SPACE", c.Up, 1))

\* the sprint and crouch handling at the head of ProcessKeyboard
KeyboardFlags(w, keys) ==
    LET w1 == IF "LEFT_SHIFT" \in keys
              THEN (IF ~w.ctl.isSprinting THEN Controller_StartSprinting(w) ELSE w)
              ELSE (IF w.ctl.isSprinting THEN Controller_StopSprinting(w) ELSE w)
    IN  IF "LEFT_CONTROL" \in keys
        THEN (IF ~w1.ctl.isCrouching THEN Controller_StartCrouching(w1) ELSE w1)
        ELSE (IF w1.ctl.isCrouching THEN Controller_StopCrouching(w1) ELSE w1)

\* the movement part of ProcessKeyboard, m_camera bound
KeyboardMove(w, keys, deltaTime) ==
    LET st       == w.ctl.settings
        movement == MovementOf(w.cam, keys)
        moving   == ~IsNaNVec(movement) /\ movement # Vec3Zero
        speed0   == st.movementSpeed
        speed1   == IF w.ctl.isSprinting THEN FMul(speed0, st.sprintMultiplier) ELSE speed0
        speed2   == IF w.ctl.isCrouching THEN FMul(speed1, st.crouchMultiplier) ELSE speed1
        step     == VScale(VNormalize(movement), FMul(speed2, deltaTime))
    IN  IF moving
        THEN IF w.ctl.smoothingEnabled
             THEN LET v == VMix(w.ctl.velocitySmooth, step, st.movementSmoothing)
                  IN  [ ctl |-> [w.ctl EXCEPT !.velocitySmooth = v],
                        cam |-> Camera_SetPosition(w.cam, NVAdd(w.cam.Position, v)) ]
             ELSE [w EXCEPT !.cam = Camera_SetPosition(w.cam, NVAdd(w.cam.Position, step))]
        ELSE IF w.ctl.smoothingEnabled
             THEN LET v == VMix(w.ctl.velocitySmooth, Vec3Zero, 2 * st.movementSmoothing)
                  IN  [ ctl |-> [w.ctl EXCEPT !.velocitySmooth = v],
                        cam |-> Camera_SetPosition(w.cam, NVAdd(w.cam.Position, v)) ]
             ELSE w

\* ProcessKeyboard after the sprint and crouch handling.  With m_camera null
\* the movement code dereferences it when a direction key is held or smoothing
\* is enabled.
KeyboardAfterFlags(w, keys, deltaTime) ==
    IF w.ctl.camera THEN KeyboardMove(w, keys, deltaTime)
    ELSE IF keys \cap {"W", "S", "A", "D", "SPACE"} # {} \/ w.ctl.smoothingEnabled
    THEN SetCtl(w, [w.ctl EXCEPT !.fault = TRUE])
    ELSE w

Controller_ProcessKeyboard(w, in, deltaTime) ==
    IF ~w.ctl.input THEN w
    ELSE KeyboardAfterFlags(KeyboardFlags(w, in.keys), in.keys, deltaTime)

Controller_HandleMouseLook(w, in, deltaTime) ==
    IF ~w.ctl.input \/ ~w.ctl.camera THEN w
    ELSE IF w.ctl.firstMouse
    THEN SetCtl(w, [w.ctl EXCEPT !.lastMouseX = in.mouseX, !.lastMouseY = in.mouseY,
                                 !.firstMouse = FALSE])
    ELSE
    LET st      == w.ctl.settings
        xoffset == FMul(in.mouseX - w.ctl.lastMouseX, st.mouseSensitivity)
        yoff0   == FMul(w.ctl.lastMouseY - in.mouseY, st.mouseSensitivity)
        yoffset == IF st.invertY THEN -yoff0 ELSE yoff0
        c1      == [w.ctl EXCEPT !.lastMouseX = in.mouseX, !.lastMouseY = in.mouseY]
    IN  IF w.ctl.smoothingEnabled
        THEN LET r == V2Mix(w.ctl.rotationSmooth, <<xoffset, yoffset>>, st.rotationSmoothing)
             IN  [ ctl |-> [c1 EXCEPT !.rotationSmooth = r],
                   cam |-> Camera_ProcessMouseMovement(w.cam, r[1], r[2], st.constrainPitch) ]
        ELSE [ ctl |-> c1,
               cam |-> Camera_ProcessMouseMovement(w.cam, xoffset, yoffset,
                                                   st.constrainPitch) ]

\* the aim handling at the head of ProcessMouse
MouseFlags(w, in) ==
    IF in.rightButton
    THEN (IF ~w.ctl.isAiming THEN Controller_StartAiming(w) ELSE w)
    ELSE (IF w.ctl.isAiming THEN Controller_StopAiming(w) ELSE w)

\* ProcessMouse that starts the aim on the button and never ends it
Mutant_ProcessMouse(w, in, deltaTime) ==
    IF ~w.ctl.input THEN w
    ELSE Controller_HandleMouseLook(
             IF in.rightButton /\ ~w.ctl.isAiming THEN Controller_StartAiming(w) ELSE w,
             in, deltaTime)

Controller_ProcessMouse(w, in, deltaTime) ==
    IF ~w.ctl.input THEN w
    ELSE Controller_HandleMouseLook(MouseFlags(w, in), in, deltaTime)

Controller_ProcessMouseScroll(w, yoffset) ==
    IF w.ctl.camera /\ w.ctl.inputEnabled
    THEN [w EXCEPT !.cam = Camera_ProcessMouseScroll(w.cam, yoffset)]
    ELSE w

\* Reset after the camera's own Reset
ResetController(w) ==
    SetCtl(w, [w.ctl EXCEPT !.isAiming = FALSE, !.isSprinting = FALSE,
                            !.isCrouching = FALSE,
                            !.velocitySmooth = Vec3Zero,
                            !.rotationSmooth = Vec2Zero,
                            !.targetFOV = w.ctl.settings.defaultFOV,
                            !.currentFOV = w.ctl.settings.defaultFOV,
                            !.shakeIntensity = 0, !.shakeDuration = 0,
                            !.shakeTimer = 0, !.shakeOffset = Vec3Zero,
                            !.firstMouse = TRUE])

\* Reset that leaves the first-mouse guard as it was
Mutant_Reset(w) ==
    [ResetController(IF w.ctl.camera THEN [w EXCEPT !.cam = Camera_Reset(w.cam)] ELSE w)
         EXCEPT !.ctl.firstMouse = w.ctl.firstMouse]

Controller_Reset(w) ==
    ResetController(IF w.ctl.camera THEN [w EXCEPT !.cam = Camera_Reset(w.cam)] ELSE w)

\* CalculateThirdPersonPosition that forgets the height
Mutant_CalculateThirdPersonPosition(w) ==
    NVAdd(NVAdd(w.ctl.target,
                NVScale(VNormalize(w.cam.Front), -w.ctl.settings.thirdPersonDistance)),
          w.ctl.settings.thirdPersonOffset)

Controller_CalculateThirdPersonPosition(w) ==
    LET st        == w.ctl.settings
        direction == IF IsNaNVec(w.cam.Front) THEN NaNVec ELSE VNormalize(w.cam.Front)
        behind    == NVAdd(w.ctl.target, NVScale(direction, -st.thirdPersonDistance))
    IN  NVAdd(NVAdd(behind, <<0, st.thirdPersonHeight, 0>>), st.thirdPersonOffset)

Controller_UpdateFirstPerson(w, deltaTime) == w

Controller_UpdateThirdPerson(w, deltaTime) ==
    IF ~w.ctl.camera THEN w
    ELSE LET idealPosition == Controller_CalculateThirdPersonPosition(w)
             newPos == IF w.ctl.smoothingEnabled
                       THEN NVMix(w.cam.Position, idealPosition,
                                  2 * w.ctl.settings.movementSmoothing)
                       ELSE idealPosition
         IN  [w EXCEPT !.cam = Camera_LookAt(Camera_SetPosition(w.cam, newPos),
                                             w.ctl.target)]

\* UpdateSpectator that lifts the camera
Mutant_UpdateSpectator(w, deltaTime) ==
    [w EXCEPT !.cam = Camera_SetPosition(w.cam, NVAdd(w.cam.Position, <<0, deltaTime, 0>>))]

Controller_UpdateSpectator(w, deltaTime) == w

Controller_UpdateFixed(w, deltaTime) ==
    IF w.ctl.target # Vec3Zero
    THEN [w EXCEPT !.cam = Camera_LookAt(w.cam, w.ctl.target)]
    ELSE w

\* UpdateFOV that interpolates twice as far
Mutant_UpdateFOV(w, deltaTime) ==
    IF ~w.ctl.camera THEN w
    ELSE IF Abs(w.ctl.currentFOV - w.ctl.targetFOV) > 100
    THEN LET fov == Mix(w.ctl.currentFOV, w.ctl.targetFOV,
                        2 * FMul(w.ctl.settings.fovTransitionSpeed, deltaTime))
         IN  [ ctl |-> [w.ctl EXCEPT !.currentFOV = fov],
               cam |-> Camera_SetPerspective(w.cam, fov, w.cam.AspectRatio,
                                             NEAR_PLANE, FAR_PLANE) ]
    ELSE w

Controller_UpdateFOV(w, deltaTime) ==
    IF ~w.ctl.camera THEN w
    ELSE IF Abs(w.ctl.currentFOV - w.ctl.targetFOV) > 100
    THEN LET fov == Mix(w.ctl.currentFOV, w.ctl.targetFOV,
                        FMul(w.ctl.settings.fovTransitionSpeed, deltaTime))
         IN  [ ctl |-> [w.ctl EXCEPT !.currentFOV = fov],
               cam |-> Camera_SetPerspective(w.cam, fov, w.cam.AspectRatio,
                                             NEAR_PLANE, FAR_PLANE) ]
    ELSE w

\* rnd: the three draws of dis(gen), each in [-1, 1]
Controller_UpdateShake(w, deltaTime, rnd) ==
    IF w.ctl.shakeTimer > 0
    THEN LET timer     == w.ctl.shakeTimer - deltaTime
             intensity == IF w.ctl.shakeDuration = 0 THEN NaN
                          ELSE FMul(w.ctl.shakeIntensity, FDiv(timer, w.ctl.shakeDuration))
             offset    == IF intensity = NaN THEN NaNVec
                          ELSE << FMul(rnd[1], intensity), FMul(rnd[2], intensity),
                                  FMul(FMul(rnd[3], intensity), 500) >>
             damped    == Max(0, w.ctl.shakeIntensity
                                    - FMul(w.ctl.settings.shakeDamping, deltaTime))
         IN  [ ctl |-> [w.ctl EXCEPT !.shakeTimer = timer, !.shakeOffset = offset,
                                     !.shakeIntensity = damped],
               cam |-> IF w.ctl.camera
                       THEN Camera_SetPosition(w.cam, NVAdd(w.cam.Position, offset))
                       ELSE w.cam ]
    ELSE IF w.ctl.shakeIntensity > 0 THEN Controller_ClearShake(w) ELSE w

Controller_ApplySmoothing(w, deltaTime) == w

\* the switch on m_mode in Update
ModeUpdate(w, deltaTime) ==
    CASE w.ctl.mode = "FirstPerson" -> Controller_UpdateFirstPerson(w, deltaTime)
      [] w.ctl.mode = "ThirdPerson" -> Controller_UpdateThirdPerson(w, deltaTime)
      [] w.ctl.mode = "Spectator"   -> Controller_UpdateSpectator(w, deltaTime)
      [] w.ctl.mode = "Fixed"       -> Controller_UpdateFixed(w, deltaTime)

\* the end of Update
SmoothingStep(w, deltaTime) ==
    IF w.ctl.smoothingEnabled THEN Controller_ApplySmoothing(w, deltaTime) ELSE w

\* Update that forgets to test m_inputEnabled
Mutant_Update(w, in, deltaTime, rnd) ==
    IF ~w.ctl.camera \/ ~w.ctl.input THEN w
    ELSE SmoothingStep(
             Controller_UpdateShake(
                 Controller_UpdateFOV(
                     ModeUpdate(
                         Controller_ProcessMouse(
                             Controller_ProcessKeyboard(w, in, deltaTime),
                             in, deltaTime),
                         deltaTime),
                     deltaTime),
                 deltaTime, rnd),
             deltaTime)

Controller_Update(w, in, deltaTime, rnd) ==
    IF ~w.ctl.camera \/ ~w.ctl.input \/ ~w.ctl.inputEnabled THEN w
    ELSE SmoothingStep(
             Controller_UpdateShake(
                 Controller_UpdateFOV(
                     ModeUpdate(
                         Controller_ProcessMouse(
                             Controller_ProcessKeyboard(w, in, deltaTime),
                             in, deltaTime),
                         deltaTime),
                     deltaTime),
                 deltaTime, rnd),
             deltaTime)

-----------------------------------------------------------------------------
(* The state machine.  ctl and cam are the controller and the camera it     *)
(* shares with the application, inp is what the Input object reports.  hist *)
(* records the run: the last call (op, arg), the call before it (prev), the *)
(* world before the last call (pre), the number of calls made (n) of the    *)
(* max the run is followed for, the world as it would be had every draw of  *)
(* the shake's random generator been 0, so that no shake offset was ever    *)
(* added (unshaken), and the last AddShake with the time the Updates have   *)
(* advanced since (shake).                                                  *)

World == [ctl |-> ctl, cam |-> cam]

\* a controller built over a camera at position, then initialised with an input
ReadyWorld(position) ==
    Controller_Initialize(
        Controller_SetCamera(
            [ ctl |-> Controller_New,
              cam |-> Camera_New(position, <<0, One, 0>>, YAW, PITCH, ROLL) ],
            TRUE),
        TRUE)

\* what Input reports: the held keys, the cursor, the right mouse button
InputOf(keys, mouseX, mouseY, rightButton) ==
    [keys |-> keys, mouseX |-> mouseX, mouseY |-> mouseY, rightButton |-> rightButton]

IdleInput == InputOf({}, 400 * One, 300 * One, FALSE)

NoShake == [added |-> FALSE, fresh |-> FALSE, intensity |-> 0, duration |-> 0,
            elapsed |-> 0]

\* max: the number of calls the run is followed for; 0: frames are not counted
InitOf(w, in, max) ==
    /\ ctl = w.ctl
    /\ cam = w.cam
    /\ inp = in
    /\ hist = [op |-> "Init", arg |-> 0, prev |-> <<"Init", 0>>, pre |-> w,
               n |-> 0, max |-> max, unshaken |-> w, shake |-> NoShake]

\* whether the run is followed for one more call
Within == hist.max = 0 \/ hist.n < hist.max

\* the state after a call: after is the world it leaves, unshaken what it
\* leaves of the unshaken world, shake the record of the last AddShake
Called(op, arg, after, unshaken, shake) ==
    /\ ctl' = after.ctl
    /\ cam' = after.cam
    /\ hist' = [hist EXCEPT !.op = op, !.arg = arg, !.prev = <<hist.op, hist.arg>>,
                            !.pre = World,
                            !.n = IF hist.max = 0 THEN 0 ELSE @ + 1,
                            !.unshaken = unshaken, !.shake = shake]
    /\ UNCHANGED inp

\* the devices change what Input reports
InputEvent(in) ==
    /\ Within
    /\ inp # in
    /\ inp' = in
    /\ hist' = [hist EXCEPT !.op = "Input", !.arg = 0, !.prev = <<hist.op, hist.arg>>,
                            !.pre = World,
                            !.n = IF hist.max = 0 THEN 0 ELSE @ + 1]
    /\ UNCHANGED <<ctl, cam>>

\* whether Update gets past its guard
UpdateRuns(w) == w.ctl.camera /\ w.ctl.input /\ w.ctl.inputEnabled

Update(deltaTime, rnd) ==
    /\ Within
    /\ Called("Update", <<deltaTime, rnd>>,
              Controller_Update(World, inp, deltaTime, rnd),
              Controller_Update(hist.unshaken, inp, deltaTime, Vec3Zero),
              IF UpdateRuns(World) /\ hist.shake.added
              THEN [hist.shake EXCEPT !.elapsed = @ + deltaTime]
              ELSE hist.shake)

SetCamera(bound) ==
    /\ Within
    /\ Called("SetCamera", bound, Controller_SetCamera(World, bound),
              Controller_SetCamera(hist.unshaken, bound), hist.shake)

Initialize(bound) ==
    /\ Within
    /\ Called("Initialize", bound, Controller_Initialize(World, bound),
              Controller_Initialize(hist.unshaken, bound), hist.shake)

SetInputEnabled(enabled) ==
    /\ Within
    /\ Called("SetInputEnabled", enabled, Controller_SetInputEnabled(World, enabled),
              Controller_SetInputEnabled(hist.unshaken, enabled), hist.shake)

SetMode(mode) ==
    /\ Within
    /\ Called("SetMode", mode, Controller_SetMode(World, mode),
              Controller_SetMode(hist.unshaken, mode), hist.shake)

StartAiming ==
    /\ Within
    /\ Called("StartAiming", 0, Controller_StartAiming(World),
              Controller_StartAiming(hist.unshaken), hist.shake)

StopAiming ==
    /\ Within
    /\ Called("StopAiming", 0, Controller_StopAiming(World),
              Controller_StopAiming(hist.unshaken), hist.shake)

StartSprinting ==
    /\ Within
    /\ Called("StartSprinting", 0, Controller_StartSprinting(World),
              Controller_StartSprinting(hist.unshaken), hist.shake)

StopSprinting ==
    /\ Within
    /\ Called("StopSprinting", 0, Controller_StopSprinting(World),
              Controller_StopSprinting(hist.unshaken), hist.shake)

StartCrouching ==
    /\ Within
    /\ Called("StartCrouching", 0, Controller_StartCrouching(World),
              Controller_StartCrouching(hist.unshaken), hist.shake)

StopCrouching ==
    /\ Within
    /\ Called("StopCrouching", 0, Controller_StopCrouching(World),
              Controller_StopCrouching(hist.unshaken), hist.shake)

Reset ==
    /\ Within
    /\ Called("Reset", 0, Controller_Reset(World), Controller_Reset(hist.unshaken),
              NoShake)

SetFOV(fov) ==
    /\ Within
    /\ Called("SetFOV", fov, Controller_SetFOV(World, fov),
              Controller_SetFOV(hist.unshaken, fov), hist.shake)

\* whether no shake state is left in the controller
ShakeIdle(w) ==
    /\ w.ctl.shakeIntensity = 0
    /\ w.ctl.shakeDuration = 0
    /\ w.ctl.shakeTimer = 0
    /\ w.ctl.shakeOffset = Vec3Zero

AddShake(intensity, duration) ==
    /\ Within
    /\ Called("AddShake", <<intensity, duration>>,
              Controller_AddShake(World, intensity, duration),
              Controller_AddShake(hist.unshaken, intensity, duration),
              [added |-> TRUE, fresh |-> ShakeIdle(World), intensity |-> intensity,
               duration |-> duration, elapsed |-> 0])

ClearShake ==
    /\ Within
    /\ Called("ClearShake", 0, Controller_ClearShake(World),
              Controller_ClearShake(hist.unshaken), NoShake)

(* The application's own calls on the camera it shares with the controller. *)

OnCamera(w, c) == [w EXCEPT !.cam = c]

CameraLookAt(target) ==
    /\ Within
    /\ Called("LookAt", target, OnCamera(World, Camera_LookAt(cam, target)),
              OnCamera(hist.unshaken, Camera_LookAt(hist.unshaken.cam, target)),
              hist.shake)

CameraProcessMouseMovement(xoffset, yoffset, constrainPitch) ==
    /\ Within
    /\ Called("ProcessMouseMovement", <<xoffset, yoffset, constrainPitch>>,
              OnCamera(World,
                       Camera_ProcessMouseMovement(cam, xoffset, yoffset, constrainPitch)),
              OnCamera(hist.unshaken,
                       Camera_ProcessMouseMovement(hist.unshaken.cam, xoffset, yoffset,
                                                   constrainPitch)),
              hist.shake)

CameraProcessMouseScroll(yoffset) ==
    /\ Within
    /\ Called("ProcessMouseScroll", yoffset,
              OnCamera(World, Camera_ProcessMouseScroll(cam, yoffset)),
              OnCamera(hist.unshaken,
                       Camera_ProcessMouseScroll(hist.unshaken.cam, yoffset)),
              hist.shake)

CameraSetPerspective(fov) ==
    /\ Within
    /\ Called("SetPerspective", fov,
              OnCamera(World, Camera_SetPerspective(cam, fov, cam.AspectRatio,
                                                    NEAR_PLANE, FAR_PLANE)),
              OnCamera(hist.unshaken,
                       Camera_SetPerspective(hist.unshaken.cam, fov, cam.AspectRatio,
                                             NEAR_PLANE, FAR_PLANE)),
              hist.shake)

CameraSetPosition(position) ==
    /\ Within
    /\ Called("SetPosition", position,
              OnCamera(World, Camera_SetPosition(cam, position)),
              OnCamera(hist.unshaken, Camera_SetPosition(hist.unshaken.cam, position)),
              hist.shake)

-----------------------------------------------------------------------------
(* Mode changes in mid-motion.                                             *)

MaxModeSteps == 4

\* W held and the cursor moved, against the idle input
ModeInputs == {IdleInput, InputOf({"W"}, 420 * One, 310 * One, FALSE)}

InitMode == InitOf(ReadyWorld(<<0, 2 * One, 5 * One>>), IdleInput, MaxModeSteps)

NextMode ==
    \/ \E m \in Modes : SetMode(m)
    \/ \E in \in ModeInputs : InputEvent(in)
    \/ Update(100, Vec3Zero)

SpecMode == InitMode /\ [][NextMode]_vars

\* C1: SetMode(m) with m different from the current mode sets the mode to m and
\* leaves velocitySmooth and rotationSmooth zero, for every pair of distinct
\* modes; SetMode(m) with m the current mode changes nothing.
C1_SetModeResets ==
    hist.op = "SetMode" =>
        IF hist.arg # hist.pre.ctl.mode
        THEN /\ ctl.mode = hist.arg
             /\ ctl.velocitySmooth = Vec3Zero
             /\ ctl.rotationSmooth = Vec2Zero
        ELSE World = hist.pre

\* a mode change made while both smoothing accumulators are non-zero
C1_Witness ==
    /\ hist.op = "SetMode"
    /\ hist.arg # hist.pre.ctl.mode
    /\ hist.pre.ctl.velocitySmooth # Vec3Zero
    /\ hist.pre.ctl.rotationSmooth # Vec2Zero

-----------------------------------------------------------------------------
(* Update with a collaborator missing or the input disabled.               *)

MaxGuardSteps == 3

\* a run in mid-flight: a shake running, the player aiming (the FOV in
\* transition), W held and the cursor away from where it was last sampled
GuardWorld ==
    Controller_AddShake(
        Controller_StartAiming(ReadyWorld(<<0, 2 * One, 5 * One>>)), One, 500)

GuardInput == InputOf({"W", "LEFT_SHIFT"}, 420 * One, 310 * One, FALSE)

InitGuard == InitOf(GuardWorld, GuardInput, MaxGuardSteps)

NextGuard ==
    \/ \E b \in BOOLEAN : SetCamera(b)
    \/ \E b \in BOOLEAN : Initialize(b)
    \/ \E b \in BOOLEAN : SetInputEnabled(b)
    \/ \E in \in {IdleInput, GuardInput} : InputEvent(in)
    \/ \E r \in {<<One, -One, 500>>} : Update(100, r)

SpecGuard == InitGuard /\ [][NextGuard]_vars

\* C2: Update(dt) with no camera bound, no input bound or inputEnabled false
\* changes no field of the controller and no field of the camera.
C2_UpdateGuarded ==
    (hist.op = "Update" /\ ~UpdateRuns(hist.pre)) => World = hist.pre

\* an Update with the input disabled while a shake runs, the FOV is in
\* transition and a movement key is held: everything Update would change
C2_Witness ==
    /\ hist.op = "Update"
    /\ hist.pre.ctl.camera /\ hist.pre.ctl.input /\ ~hist.pre.ctl.inputEnabled
    /\ ctl.shakeTimer > 0
    /\ ctl.targetFOV # ctl.currentFOV
    /\ "W" \in inp.keys
    /\ ~ctl.isSprinting

-----------------------------------------------------------------------------
(* The target FOV under aim, sprint and crouch.                            *)

MaxFovSteps == 3

FovInputs ==
    { IdleInput,
      InputOf({"LEFT_SHIFT"}, 400 * One, 300 * One, FALSE),
      InputOf({"LEFT_CONTROL"}, 400 * One, 300 * One, TRUE) }

InitFov == InitOf(ReadyWorld(<<0, 2 * One, 5 * One>>), IdleInput, MaxFovSteps)

NextFov ==
    \/ StartAiming
    \/ StopAiming
    \/ StartSprinting
    \/ StopSprinting
    \/ StartCrouching
    \/ StopCrouching
    \/ Reset
    \/ \E in \in FovInputs : InputEvent(in)
    \/ Update(100, Vec3Zero)

SpecFov == InitFov /\ [][NextFov]_vars

\* the FOV the flags call for
FovOfFlags(c) ==
    IF c.isAiming THEN c.settings.aimFOV
    ELSE IF c.isSprinting THEN c.settings.sprintFOV
    ELSE c.settings.defaultFOV

\* C3: after any sequence of Start/Stop aiming, sprinting and crouching, Update
\* and Reset on an initialised controller, the target FOV is aimFOV if aiming,
\* otherwise sprintFOV if sprinting, otherwise defaultFOV; the crouch operations
\* never change it.
C3_TargetFovOfFlags ==
    /\ ctl.targetFOV = FovOfFlags(ctl)
    /\ hist.op \in {"StartCrouching", "StopCrouching"} =>
           ctl.targetFOV = hist.pre.ctl.targetFOV

\* aiming ended while sprinting: the target falls back to sprintFOV, not to
\* defaultFOV
C3_Witness ==
    /\ hist.op = "StopAiming"
    /\ hist.pre.ctl.isAiming
    /\ ctl.isSprinting
    /\ ctl.targetFOV = ctl.settings.sprintFOV

-----------------------------------------------------------------------------
(* Camera shake.                                                           *)

MaxShakeSteps == 4

\* the default settings, and a stronger global shake that damps slowly
ShakeSettings ==
    { DefaultSettings,
      [DefaultSettings EXCEPT !.shakeIntensity = 2 * One, !.shakeDamping = One] }

\* AddShake(1.0, 0.5) and a weaker, shorter shake
ShakeArgs == {<<One, 500>>, <<300, 200>>}

\* frames of 0.1 s and one long frame of 0.6 s
ShakeFrames == {100, 600}

\* the three draws of the generator in a frame
ShakeDraws == {<<One, -One, 500>>, Vec3Zero}

InitShake ==
    \E st \in ShakeSettings :
        InitOf(Controller_SetSettings(ReadyWorld(<<0, 2 * One, 5 * One>>), st),
               IdleInput, MaxShakeSteps)

NextShake ==
    \/ \E a \in ShakeArgs : AddShake(a[1], a[2])
    \/ \E dt \in ShakeFrames, r \in ShakeDraws : Update(dt, r)
    \/ ClearShake

SpecShake == InitShake /\ [][NextShake]_vars

\* C4: AddShake(intensity, duration) leaves shakeIntensity the maximum of its
\* previous value and intensity * settings.shakeIntensity, shakeDuration the
\* maximum of its previous value and duration, and shakeTimer restarted at the
\* new shakeDuration; neither shakeIntensity nor shakeDuration decreases.
C4_AddShakeExtends ==
    hist.op = "AddShake" =>
        /\ ctl.shakeIntensity =
               Max(hist.pre.ctl.shakeIntensity,
                   FMul(hist.arg[1], hist.pre.ctl.settings.shakeIntensity))
        /\ ctl.shakeDuration = Max(hist.pre.ctl.shakeDuration, hist.arg[2])
        /\ ctl.shakeTimer = ctl.shakeDuration
        /\ ctl.shakeIntensity >= hist.pre.ctl.shakeIntensity
        /\ ctl.shakeDuration >= hist.pre.ctl.shakeDuration

\* a weaker and shorter shake added while a stronger one runs: the running
\* shake keeps its strength and its timer is wound back to the full duration
C4_Witness ==
    /\ hist.op = "AddShake"
    /\ hist.pre.ctl.shakeTimer > 0
    /\ FMul(hist.arg[1], ctl.settings.shakeIntensity) < hist.pre.ctl.shakeIntensity
    /\ hist.arg[2] < hist.pre.ctl.shakeDuration
    /\ ctl.shakeIntensity = hist.pre.ctl.shakeIntensity
    /\ ctl.shakeTimer > hist.pre.ctl.shakeTimer

\* C5: after AddShake(i, d), i > 0 and d > 0, on a controller with no shake
\* active, once Updates have advanced the shake by at least d in all and no
\* other AddShake was called, shakeOffset is (0,0,0) and shakeIntensity is 0.
C5_ShakeDecays ==
    ( /\ hist.op = "Update"
      /\ hist.shake.added /\ hist.shake.fresh
      /\ hist.shake.intensity > 0 /\ hist.shake.duration > 0
      /\ hist.shake.elapsed >= hist.shake.duration )
    => (ctl.shakeOffset = Vec3Zero /\ ctl.shakeIntensity = 0)

\* C6: ClearShake leaves the camera where it would be had no shake offset ever
\* been added to its position.
C6_ClearShakeRestores ==
    hist.op = "ClearShake" => cam.Position = hist.unshaken.cam.Position

-----------------------------------------------------------------------------
(* The camera on its own: LookAt, mouse movement, scroll.                  *)

MaxCameraSteps == 3

CameraPositions == {Vec3Zero, <<0, 2 * One, 5 * One>>}

\* from the origin: a level target, one above and one below
LookTargets == {<<3 * One, 0, 4 * One>>, <<0, One, -One>>, <<2 * One, -One, 2 * One>>}

MouseMoves == {<<0, 10000 * One>>, <<0, -10000 * One>>, <<50 * One, 20 * One>>}

Scrolls == {1000 * One, -1000 * One, 10 * One}

\* an out-of-range field of view
WideFov == 500 * One

InitCamera ==
    \E p \in CameraPositions :
        InitOf([ ctl |-> Controller_New,
                 cam |-> Camera_New(p, <<0, One, 0>>, YAW, PITCH, ROLL) ],
               IdleInput, MaxCameraSteps)

NextCamera ==
    \/ \E t \in LookTargets : CameraLookAt(t)
    \/ \E m \in MouseMoves, c \in BOOLEAN : CameraProcessMouseMovement(m[1], m[2], c)
    \/ \E y \in Scrolls : CameraProcessMouseScroll(y)
    \/ CameraSetPerspective(WideFov)

SpecCamera == InitCamera /\ [][NextCamera]_vars

\* the unit direction from the camera to the target of the last LookAt
LookDirection == VNormalize(VSub(hist.arg, cam.Position))

\* C7: after LookAt(target), target different from the camera's position and
\* the direction to it away from the pitch clamp, the front vector points at the
\* target (the dot product of the two directions is 1, here to 0.005), so its Y
\* is positive for a target above the camera and negative for one below.
C7_LookAtPointsAtTarget ==
    ( /\ hist.op = "LookAt"
      /\ hist.arg # cam.Position
      /\ ~IsNaNVec(hist.pre.cam.Front)
      /\ Abs(LookDirection[2]) <= 985 )
    => /\ VDot(LookDirection, cam.Front) >= One - 5
       /\ hist.arg[2] > cam.Position[2] => cam.Front[2] > 0
       /\ hist.arg[2] < cam.Position[2] => cam.Front[2] < 0

\* C9 as claimed: ProcessMouseMovement(dx, dy, true) leaves the pitch within
\* [-89, 89] whatever the pitch before, and (0, 10000, true) yields exactly 89,
\* (0, -10000, true) exactly -89.
C9_PitchSaturatesAlways ==
    (hist.op = "ProcessMouseMovement" /\ hist.arg[3]) =>
        /\ -PitchLimit <= cam.Pitch /\ cam.Pitch <= PitchLimit
        /\ hist.arg[2] = 10000 * One => cam.Pitch = PitchLimit
        /\ hist.arg[2] = -10000 * One => cam.Pitch = -PitchLimit

\* C9 amended: ProcessMouseMovement(dx, dy, true) leaves the pitch within
\* [-89, 89] whatever the pitch before and the offsets; it is exactly 89 when
\* the pitch before plus dy * MouseSensitivity is 89 or more and exactly -89 when
\* that sum is -89 or less, so from a pitch within [-89, 89], at the default
\* sensitivity, (0, 10000, true) yields 89 and (0, -10000, true) yields -89.
C9_PitchClamped ==
    (hist.op = "ProcessMouseMovement" /\ hist.arg[3]) =>
        LET before == hist.pre.cam.Pitch
            moved  == before + FMul(hist.arg[2], hist.pre.cam.MouseSensitivity)
            usual  == /\ -PitchLimit <= before /\ before <= PitchLimit
                      /\ hist.pre.cam.MouseSensitivity = SENSITIVITY
        IN  /\ -PitchLimit <= cam.Pitch /\ cam.Pitch <= PitchLimit
            /\ moved >= PitchLimit => cam.Pitch = PitchLimit
            /\ moved <= -PitchLimit => cam.Pitch = -PitchLimit
            /\ (usual /\ hist.arg[2] = 10000 * One) => cam.Pitch = PitchLimit
            /\ (usual /\ hist.arg[2] = -10000 * One) => cam.Pitch = -PitchLimit

\* a pitch far below the range (left by an unconstrained move) brought back to
\* the bound by a constrained one
C9_Witness ==
    /\ hist.op = "ProcessMouseMovement"
    /\ hist.arg[3]
    /\ hist.pre.cam.Pitch < -PitchLimit
    /\ hist.arg[2] = -10000 * One
    /\ cam.Pitch = -PitchLimit

-----------------------------------------------------------------------------
(* The field of view on its way to the target, frame after frame.          *)

\* frame times in thousandths of a second: with fovTransitionSpeed 5 the
\* interpolation factors are 0.1, 0.5 and 0.95, each of which moves a FOV that
\* is 0.1 from its target by more than the resolution of the arithmetic
FovFrames == {20, 100, 190}

FovTargets == {50 * One, 90 * One}

\* the distance of the current FOV of world w from its target
FovGap(w) == Abs(w.ctl.currentFOV - w.ctl.targetFOV)

InitFovConv == InitOf(ReadyWorld(<<0, 2 * One, 5 * One>>), IdleInput, 0)

\* a new target is set once the transition to the last one has ended
NextFovConv ==
    \/ \E fov \in FovTargets : FovGap(World) <= 100 /\ SetFOV(fov)
    \/ \E dt \in FovFrames : Update(dt, Vec3Zero)

\* a step that is a call of Update
UpdateStep == hist'.op = "Update"

\* the game loop keeps calling Update, which is enabled in every state: weak
\* fairness of Update, stated as the steps it asks for
SpecFovConv == InitFovConv /\ [][NextFovConv]_vars /\ []<><<UpdateStep>>_vars

\* the interpolation factor of the last Update
FovFactor == FMul(hist.pre.ctl.settings.fovTransitionSpeed, hist.arg[1])

\* what an Update does to the FOV: nothing within 0.1 of the target, a step
\* strictly closer and on the same side of the target otherwise
FovStepCloser ==
    (hist.op = "Update" /\ 0 < FovFactor /\ FovFactor < One) =>
        IF FovGap(hist.pre) > 100
        THEN /\ FovGap(World) < FovGap(hist.pre)
             /\ hist.pre.ctl.currentFOV > ctl.targetFOV =>
                    /\ ctl.currentFOV < hist.pre.ctl.currentFOV
                    /\ ctl.currentFOV >= ctl.targetFOV
             /\ hist.pre.ctl.currentFOV < ctl.targetFOV =>
                    /\ ctl.currentFOV > hist.pre.ctl.currentFOV
                    /\ ctl.currentFOV <= ctl.targetFOV
        ELSE ctl.currentFOV = hist.pre.ctl.currentFOV

\* C8: when 0 < fovTransitionSpeed * dt < 1, every UpdateFOV(dt) step taken
\* while |currentFOV - targetFOV| > 0.1 moves currentFOV strictly closer to
\* targetFOV without crossing it (from 75 toward 50 the values decrease and stay
\* at 50 or above), a step taken within 0.1 leaves it unchanged, and while the
\* target stays the same currentFOV gets within 0.1 of it after finitely many
\* steps.
C8_FovConverges ==
    /\ [] FovStepCloser
    /\ \A fov \in FovTargets :
           (ctl.targetFOV = fov) ~> (ctl.targetFOV # fov \/ FovGap(World) <= 100)

\* the step from 75 toward 50 that brings the FOV within 0.1 of 50, from above
C8_Witness ==
    /\ hist.op = "Update"
    /\ ctl.targetFOV = 50 * One
    /\ FovGap(hist.pre) > 100
    /\ FovGap(World) <= 100
    /\ ctl.currentFOV > ctl.targetFOV
    /\ ctl.currentFOV < hist.pre.ctl.currentFOV

-----------------------------------------------------------------------------
(* The zoom and the ways a field of view reaches it.                       *)

MaxZoomSteps == 4

\* fields of view outside [1, 120]
ZoomFovs == {150 * One, One \div 2}

InitZoom == InitOf(ReadyWorld(<<0, 2 * One, 5 * One>>), IdleInput, MaxZoomSteps)

NextZoom ==
    \/ \E fov \in ZoomFovs : CameraSetPerspective(fov)
    \/ \E y \in Scrolls : CameraProcessMouseScroll(y)
    \/ \E fov \in ZoomFovs : SetFOV(fov)
    \/ Update(100, Vec3Zero)

SpecZoom == InitZoom /\ [][NextZoom]_vars

\* C11: the camera's zoom is within [1, 120] degrees in every reachable state:
\* a field of view out of that range that arrives through SetPerspective,
\* ProcessMouseScroll, or SetFOV followed by Update is clamped, not stored.
C11_ZoomInBounds == ZoomMin <= cam.Zoom /\ cam.Zoom <= ZoomMax

-----------------------------------------------------------------------------
(* The camera's orientation: SetRotation, LookAt, Reset.                   *)

MaxOrientSteps == 3

CameraSetRotation(yaw, pitch, roll) ==
    /\ Within
    /\ Called("SetRotation", <<yaw, pitch, roll>>,
              OnCamera(World, Camera_SetRotation(cam, yaw, pitch, roll)),
              OnCamera(hist.unshaken,
                       Camera_SetRotation(hist.unshaken.cam, yaw, pitch, roll)),
              hist.shake)

CameraSetOrthographic(left, right, bottom, top, nearPlane, farPlane) ==
    /\ Within
    /\ Called("SetOrthographic", <<left, right, bottom, top, nearPlane, farPlane>>,
              OnCamera(World, Camera_SetOrthographic(cam, left, right, bottom, top,
                                                     nearPlane, farPlane)),
              OnCamera(hist.unshaken,
                       Camera_SetOrthographic(hist.unshaken.cam, left, right, bottom,
                                              top, nearPlane, farPlane)),
              hist.shake)

\* the application assigns the public members MovementSpeed and MouseSensitivity
CameraTune(speed, sensitivity) ==
    /\ Within
    /\ Called("Tune", <<speed, sensitivity>>,
              OnCamera(World, [cam EXCEPT !.MovementSpeed = speed,
                                          !.MouseSensitivity = sensitivity]),
              OnCamera(hist.unshaken,
                       [hist.unshaken.cam EXCEPT !.MovementSpeed = speed,
                                                 !.MouseSensitivity = sensitivity]),
              hist.shake)

CameraReset ==
    /\ Within
    /\ Called("CameraReset", 0, OnCamera(World, Camera_Reset(cam)),
              OnCamera(hist.unshaken, Camera_Reset(hist.unshaken.cam)), hist.shake)

\* yaw, pitch, roll
Rotations == {<<30 * One, 20 * One, 45 * One>>, <<-45 * One, -30 * One, 0>>}

\* the origin is where one of the cameras is
OrientTargets == {Vec3Zero, <<0, One, -One>>, <<3 * One, 0, 4 * One>>}

InitOrient ==
    \E p \in CameraPositions :
        InitOf([ ctl |-> Controller_New,
                 cam |-> Camera_New(p, <<0, One, 0>>, YAW, PITCH, ROLL) ],
               IdleInput, MaxOrientSteps)

NextOrient ==
    \/ \E r \in Rotations : CameraSetRotation(r[1], r[2], r[3])
    \/ \E t \in OrientTargets : CameraLookAt(t)
    \/ CameraSetOrthographic(-5 * One, 5 * One, -4 * One, 4 * One, One, 50 * One)
    \/ CameraSetPerspective(60 * One)
    \/ CameraTune(10 * One, One \div 2)
    \/ CameraReset

SpecOrient == InitOrient /\ [][NextOrient]_vars

\* C12: on return from LookAt(target) the roll is 0, whatever it was before
\* (stated for a target that is not the camera's own position, where the
\* direction to the target exists).
C12_LookAtZeroesRoll ==
    (hist.op = "LookAt" /\ hist.arg # cam.Position) => cam.Roll = 0

\* C13: LookAt(target) with target equal to the camera's position is guarded:
\* it leaves yaw, pitch and the front, right and up vectors as they were.
C13_LookAtSelfIsGuarded ==
    (hist.op = "LookAt" /\ hist.arg = hist.pre.cam.Position) =>
        /\ cam.Yaw = hist.pre.cam.Yaw
        /\ cam.Pitch = hist.pre.cam.Pitch
        /\ cam.Front = hist.pre.cam.Front
        /\ cam.Right = hist.pre.cam.Right
        /\ cam.Up = hist.pre.cam.Up

-----------------------------------------------------------------------------
(* ProcessKeyboard called by the application, with or without a camera.    *)

MaxBareSteps == 3

SetSmoothingEnabled(enabled) ==
    /\ Within
    /\ Called("SetSmoothingEnabled", enabled,
              Controller_SetSmoothingEnabled(World, enabled),
              Controller_SetSmoothingEnabled(hist.unshaken, enabled), hist.shake)

ProcessKeyboard(deltaTime) ==
    /\ Within
    /\ Called("ProcessKeyboard", deltaTime,
              Controller_ProcessKeyboard(World, inp, deltaTime),
              Controller_ProcessKeyboard(hist.unshaken, inp, deltaTime), hist.shake)

BareInputs ==
    { IdleInput,
      InputOf({"W"}, 400 * One, 300 * One, FALSE),
      InputOf({"LEFT_SHIFT"}, 400 * One, 300 * One, FALSE) }

\* a controller from the default constructor: no camera, no input
InitBare ==
    InitOf([ ctl |-> Controller_New,
             cam |-> Camera_New(<<0, 2 * One, 5 * One>>, <<0, One, 0>>, YAW, PITCH, ROLL) ],
           IdleInput, MaxBareSteps)

NextBare ==
    \/ \E b \in BOOLEAN : SetCamera(b)
    \/ \E b \in BOOLEAN : Initialize(b)
    \/ \E b \in BOOLEAN : SetSmoothingEnabled(b)
    \/ \E in \in BareInputs : InputEvent(in)
    \/ ProcessKeyboard(100)

SpecBare == InitBare /\ [][NextBare]_vars

\* C14: ProcessKeyboard(dt) called with no camera bound (an input may be) is a
\* no-op: it dereferences no missing camera and changes no field of the
\* controller, whatever keys are held and whether smoothing is enabled or not.
C14_KeyboardWithoutCamera ==
    (hist.op = "ProcessKeyboard" /\ ~hist.pre.ctl.camera /\ ~hist.pre.ctl.fault) =>
        /\ ~ctl.fault
        /\ World = hist.pre

-----------------------------------------------------------------------------
(* Fixed mode.                                                             *)

MaxFixedSteps == 4

SetTarget(target) ==
    /\ Within
    /\ Called("SetTarget", target, Controller_SetTarget(World, target),
              Controller_SetTarget(hist.unshaken, target), hist.shake)

SetPosition(position) ==
    /\ Within
    /\ Called("SetPosition", position, Controller_SetPosition(World, position),
              Controller_SetPosition(hist.unshaken, position), hist.shake)

FixedTarget == <<One, 2 * One, 3 * One>>

FixedInputs ==
    { IdleInput,
      InputOf({"W"}, 400 * One, 300 * One, FALSE),
      InputOf({}, 420 * One, 310 * One, FALSE) }

InitFixed ==
    InitOf(Controller_SetMode(ReadyWorld(<<0, 2 * One, 5 * One>>), "Fixed"),
           IdleInput, MaxFixedSteps)

NextFixed ==
    \/ \E t \in {Vec3Zero, FixedTarget} : SetTarget(t)
    \/ SetPosition(FixedTarget)
    \/ \E in \in FixedInputs : InputEvent(in)
    \/ AddShake(One, 500)
    \/ Update(100, <<One, -One, 500>>)

SpecFixed == InitFixed /\ [][NextFixed]_vars

\* an Update that got past its guard, in Fixed mode
FixedUpdate ==
    hist.op = "Update" /\ UpdateRuns(hist.pre) /\ hist.pre.ctl.mode = "Fixed"

\* the camera as the input processing of the last Update left it, turned to
\* the target by LookAt
FixedLook ==
    Camera_LookAt(
        Controller_ProcessMouse(
            Controller_ProcessKeyboard(hist.pre, inp, hist.arg[1]),
            inp, hist.arg[1]).cam,
        ctl.target)

\* C15: in Fixed mode an Update with a non-zero target ends with the camera
\* oriented by LookAt(target); with a zero target it leaves the camera's yaw,
\* pitch and roll exactly as they were, whatever the input.
C15_FixedOrientation ==
    FixedUpdate =>
        IF ctl.target # Vec3Zero
        THEN /\ cam.Yaw = FixedLook.Yaw
             /\ cam.Pitch = FixedLook.Pitch
             /\ cam.Front = FixedLook.Front
        ELSE /\ cam.Yaw = hist.pre.cam.Yaw
             /\ cam.Pitch = hist.pre.cam.Pitch
             /\ cam.Roll = hist.pre.cam.Roll

\* C16: in Fixed mode an Update leaves the camera's position unchanged, whatever
\* keys are held and whatever shake is active.
C16_FixedPosition == FixedUpdate => cam.Position = hist.pre.cam.Position

-----------------------------------------------------------------------------
(* A FirstPerson controller and its Spectator twin, driven alike.  In this  *)
(* specification the second world of the history is the twin: a controller *)
(* and camera of their own, given every call the first pair is given, the   *)
(* draws of the shake included.                                             *)

MaxTwinSteps == 4

TwinUpdate(deltaTime, rnd) ==
    /\ Within
    /\ Called("Update", <<deltaTime, rnd>>,
              Controller_Update(World, inp, deltaTime, rnd),
              Controller_Update(hist.unshaken, inp, deltaTime, rnd), hist.shake)

TwinAddShake(intensity, duration) ==
    /\ Within
    /\ Called("AddShake", <<intensity, duration>>,
              Controller_AddShake(World, intensity, duration),
              Controller_AddShake(hist.unshaken, intensity, duration), hist.shake)

TwinInputs ==
    { IdleInput,
      InputOf({"W", "LEFT_SHIFT"}, 400 * One, 300 * One, FALSE),
      InputOf({"D", "LEFT_CONTROL"}, 430 * One, 280 * One, TRUE) }

InitTwin ==
    /\ ctl = ReadyWorld(<<0, 2 * One, 5 * One>>).ctl
    /\ cam = ReadyWorld(<<0, 2 * One, 5 * One>>).cam
    /\ inp = IdleInput
    /\ hist = [op |-> "Init", arg |-> 0, prev |-> <<"Init", 0>>,
               pre |-> ReadyWorld(<<0, 2 * One, 5 * One>>),
               n |-> 0, max |-> MaxTwinSteps,
               unshaken |-> Controller_SetMode(ReadyWorld(<<0, 2 * One, 5 * One>>),
                                               "Spectator"),
               shake |-> NoShake]

NextTwin ==
    \/ \E in \in TwinInputs : InputEvent(in)
    \/ TwinAddShake(One, 500)
    \/ TwinUpdate(100, <<One, -One, 500>>)

SpecTwin == InitTwin /\ [][NextTwin]_vars

\* C17: a Spectator controller and a FirstPerson controller that start in the
\* same state but for the mode and receive the same inputs, the same Update(dt)
\* calls and the same shake draws have the same camera state and the same
\* controller state, but for the mode, after every step.
C17_SpectatorIsFirstPerson ==
    /\ ctl.mode = "FirstPerson"
    /\ hist.unshaken.ctl.mode = "Spectator"
    /\ hist.unshaken.cam = cam
    /\ [hist.unshaken.ctl EXCEPT !.mode = "FirstPerson"] = ctl

\* an Update that moved and turned the camera and shook it
C17_Witness ==
    /\ hist.op = "Update"
    /\ hist.unshaken.ctl.mode = "Spectator"
    /\ cam.Yaw # hist.pre.cam.Yaw
    /\ ctl.velocitySmooth # Vec3Zero
    /\ ctl.shakeOffset # Vec3Zero
    /\ ctl.isAiming
    /\ hist.unshaken.cam.Position = cam.Position
    /\ cam.Position # hist.pre.cam.Position

-----------------------------------------------------------------------------
(* The third-person follow camera: a target is set, the mode is ThirdPerson, *)
(* the devices are idle and no shake is added, and Update is called for     *)
(* ever.  Frames are not counted.                                           *)

ThirdSmoothings == {100, 250, 500}

ThirdStarts == { <<0, 2 * One, 5 * One>>, <<3 * One, 0, 4 * One>>,
                 <<0, 6 * One, 0>>, <<-8 * One, -3 * One, One>> }

ThirdTargets == { Vec3Zero, <<One, 2 * One, 3 * One>> }

ThirdFrames == {16, 100}

\* the world after SetSettings, SetMode(ThirdPerson) and SetTarget
ThirdWorld(position, smoothing, target) ==
    Controller_SetTarget(
        Controller_SetMode(
            Controller_SetSettings(ReadyWorld(position),
                [ReadyWorld(position).ctl.settings EXCEPT !.movementSmoothing = smoothing]),
            "ThirdPerson"),
        target)

InitThird ==
    \E position \in ThirdStarts, smoothing \in ThirdSmoothings, target \in ThirdTargets :
        InitOf(ThirdWorld(position, smoothing, target), IdleInput, 0)

NextThird == \E dt \in ThirdFrames : Update(dt, Vec3Zero)

\* the game loop keeps calling Update
SpecThird == InitThird /\ [][NextThird]_vars /\ []<><<UpdateStep>>_vars

\* target - front * thirdPersonDistance + (0, thirdPersonHeight, 0) +
\* thirdPersonOffset for the front vector that the camera of world w has now
ThirdIdeal(w) ==
    <<w.ctl.target[1] - FMul(w.cam.Front[1], w.ctl.settings.thirdPersonDistance)
          + w.ctl.settings.thirdPersonOffset[1],
      w.ctl.target[2] - FMul(w.cam.Front[2], w.ctl.settings.thirdPersonDistance)
          + w.ctl.settings.thirdPersonHeight + w.ctl.settings.thirdPersonOffset[2],
      w.ctl.target[3] - FMul(w.cam.Front[3], w.ctl.settings.thirdPersonDistance)
          + w.ctl.settings.thirdPersonOffset[3]>>

\* how far the camera of world w is from that position
ThirdGap(w) ==
    IF IsNaNVec(w.cam.Position) \/ IsNaNVec(w.cam.Front) THEN NaN
    ELSE VLength(VSub(w.cam.Position, ThirdIdeal(w)))

\* the tolerance: the sine table is linear within a degree and positions are
\* kept to the thousandth
Epsilon == One \div 5

ThirdNear(w) == ThirdGap(w) # NaN /\ ThirdGap(w) <= Epsilon

-----------------------------------------------------------------------------
(* Reset of the controller, called in the states that input, Update, shake, *)
(* FOV and mode changes and the release of the camera lead to.              *)

MaxResetSteps == 4

ResetInputs ==
    { IdleInput,
      InputOf({"W", "LEFT_SHIFT"}, 400 * One, 300 * One, TRUE),
      InputOf({"LEFT_CONTROL"}, 460 * One, 330 * One, TRUE) }

InitReset ==
    \E in \in ResetInputs :
        InitOf(ReadyWorld(<<0, 2 * One, 5 * One>>), in, MaxResetSteps)

NextReset ==
    \/ \E in \in ResetInputs : InputEvent(in)
    \/ Update(100, <<One, -One, 500>>)
    \/ AddShake(One, 500)
    \/ SetFOV(50 * One)
    \/ \E m \in {"Spectator", "ThirdPerson"} : SetMode(m)
    \/ SetCamera(FALSE)
    \/ Reset

SpecReset == InitReset /\ [][NextReset]_vars

\* what Reset leaves of the controller
ResetCleared ==
    /\ ~ctl.isAiming /\ ~ctl.isSprinting /\ ~ctl.isCrouching
    /\ ctl.velocitySmooth = Vec3Zero
    /\ ctl.rotationSmooth = Vec2Zero
    /\ ctl.targetFOV = ctl.settings.defaultFOV
    /\ ctl.currentFOV = ctl.settings.defaultFOV
    /\ ctl.shakeIntensity = 0 /\ ctl.shakeDuration = 0 /\ ctl.shakeTimer = 0
    /\ ctl.shakeOffset = Vec3Zero
    /\ ctl.firstMouse

\* an Update in a free-fly mode that finds the first-mouse guard armed takes
\* the cursor as the first sample: it disarms the guard and does not rotate,
\* wherever the cursor is
FirstSampleNoRotation ==
    (/\ hist.op = "Update" /\ UpdateRuns(hist.pre) /\ hist.pre.ctl.firstMouse
     /\ hist.pre.ctl.mode \in {"FirstPerson", "Spectator"}) =>
        /\ ~ctl.firstMouse
        /\ ctl.lastMouseX = inp.mouseX /\ ctl.lastMouseY = inp.mouseY
        /\ ctl.rotationSmooth = hist.pre.ctl.rotationSmooth
        /\ cam.Yaw = hist.pre.cam.Yaw /\ cam.Pitch = hist.pre.cam.Pitch
        /\ cam.Front = hist.pre.cam.Front

\* C19: after CameraController.Reset(), called in any state, isAiming,
\* isSprinting and isCrouching are false, velocitySmooth and rotationSmooth are
\* zero, targetFOV and currentFOV equal settings.defaultFOV, shakeIntensity,
\* shakeDuration, shakeTimer and shakeOffset are zero, the first-mouse guard is
\* armed (the next mouse sample causes no rotation) and the owned camera has
\* been reset.
C19_ResetPostconditions ==
    /\ hist.op = "Reset" =>
           /\ ResetCleared
           /\ ctl = ResetController(hist.pre).ctl
           /\ cam = IF hist.pre.ctl.camera THEN Camera_Reset(hist.pre.cam)
                    ELSE hist.pre.cam
    /\ FirstSampleNoRotation

\* the Update after a Reset of a controller that had sampled the cursor before
\* (its guard was disarmed): the camera is at the origin, the cursor is not where
\* it was last sampled, and the camera does not turn
C19_Witness ==
    /\ hist.op = "Update" /\ hist.prev[1] = "Reset"
    /\ UpdateRuns(hist.pre) /\ hist.pre.ctl.firstMouse
    /\ hist.pre.ctl.lastMouseX # 0
    /\ inp.mouseX # hist.pre.ctl.lastMouseX
    /\ hist.pre.cam.Position = Vec3Zero
    /\ cam.Yaw = YAW

-----------------------------------------------------------------------------
(* Reset of the camera, among the calls that turn it, change its projection *)
(* and tune it.                                                             *)

-----------------------------------------------------------------------------
(* The derived vectors of the camera over a grid of Euler angles.           *)

MaxVectorSteps == 2

\* yaw, pitch, roll
VectorAngles ==
    { <<0, 0, 0>>, <<-90 * One, 89 * One, 0>>, <<30 * One, -89 * One, 45 * One>>,
      <<135 * One, 45 * One, -30 * One>>, <<-180 * One, -45 * One, 180 * One>>,
      <<77 * One + 500, 20 * One + 250, 90 * One>>, <<400 * One, 60 * One, 10 * One>>,
      <<-45 * One, 95 * One, 5 * One>> }

VectorMoves == {<<0, 10000 * One>>, <<50 * One, -20 * One>>, <<-1234 * One, 345 * One>>}

VectorTargets == {<<3 * One, 0, 4 * One>>, <<0, One, -One>>, <<-2 * One, 7 * One, One>>}

InitVector ==
    \E p \in CameraPositions, a \in VectorAngles :
        InitOf([ ctl |-> Controller_New,
                 cam |-> Camera_New(p, <<0, One, 0>>, a[1], a[2], a[3]) ],
               IdleInput, MaxVectorSteps)

NextVector ==
    \/ \E a \in VectorAngles : CameraSetRotation(a[1], a[2], a[3])
    \/ \E m \in VectorMoves : CameraProcessMouseMovement(m[1], m[2], TRUE)
    \/ \E t \in VectorTargets : CameraLookAt(t)
    \/ CameraReset

SpecVector == InitVector /\ [][NextVector]_vars

\* the tolerance of the arithmetic in thousandths
VectorTolerance == One \div 100

UnitLength(v) == Abs(VLength(v) - One) <= VectorTolerance

Orthogonal(a, b) == Abs(VDot(a, b)) <= VectorTolerance

\* the last call is the construction or one of the calls that change the
\* orientation
OrientationSet ==
    hist.op \in {"Init", "ProcessMouseMovement", "SetRotation", "LookAt", "CameraReset"}

\* C21: for any yaw, any pitch in [-89, 89] and any roll, after the
\* construction, ProcessMouseMovement, SetRotation, LookAt and Reset, front,
\* right and up are the vectors of the current angles and are pairwise
\* orthogonal unit vectors.
C21_Orthonormal ==
    (/\ OrientationSet
     /\ cam.Yaw # NaN /\ cam.Pitch # NaN
     /\ -PitchLimit <= cam.Pitch /\ cam.Pitch <= PitchLimit) =>
        /\ cam = Camera_UpdateCameraVectors(cam)
        /\ cam.Front = FrontOf(cam.Yaw, cam.Pitch)
        /\ UnitLength(cam.Front) /\ UnitLength(cam.Right) /\ UnitLength(cam.Up)
        /\ Orthogonal(cam.Front, cam.Right)
        /\ Orthogonal(cam.Front, cam.Up)
        /\ Orthogonal(cam.Right, cam.Up)

\* a rolled camera at the steepest pitch, turned by the mouse
C21_Witness ==
    /\ hist.op = "ProcessMouseMovement"
    /\ cam.Pitch = PitchLimit
    /\ cam.Roll # 0
    /\ cam.Yaw # hist.pre.cam.Yaw
    /\ cam.Front # hist.pre.cam.Front
    /\ UnitLength(cam.Right)
    /\ Orthogonal(cam.Right, cam.Up)

-----------------------------------------------------------------------------
(* Input (include/input.h, src/input.cpp) and the game loop that feeds it   *)
(* (Game::Run).  In the specifications of this section inp is the Input     *)
(* object itself: the state GLFW's callbacks last stored for each key and   *)
(* mouse button ("None" for a key the map does not hold), the copy          *)
(* Input::Update took of it, the cursor and the scroll offset.  hist keeps   *)
(* the last call (op, arg), the world before it (pre), the place in the loop *)
(* (phase; "Free" when the calls come in any order), the keys whose press    *)
(* the current PollEvents delivered and that are still down (fresh) and the  *)
(* keys IsKeyPressed reported to the last OnUpdate (seen).                   *)

KeyStates == {"Released", "Pressed", "Repeat"}

InputKeys == {"2", "X"}

MouseButtons == {"Right"}

Input_New ==
    [ keyStates |-> [k \in InputKeys |-> "None"],
      previousKeyStates |-> [k \in InputKeys |-> "None"],
      mouseButtonStates |-> [b \in MouseButtons |-> "None"],
      previousMouseButtonStates |-> [b \in MouseButtons |-> "None"],
      mouseX |-> 400 * One, mouseY |-> 300 * One,
      previousMouseX |-> 400 * One, previousMouseY |-> 300 * One,
      mouseDeltaX |-> 0, mouseDeltaY |-> 0, scrollX |-> 0, scrollY |-> 0 ]

Input_Update(i) ==
    [i EXCEPT !.previousKeyStates = i.keyStates,
              !.previousMouseButtonStates = i.mouseButtonStates,
              !.mouseDeltaX = i.mouseX - i.previousMouseX,
              !.mouseDeltaY = i.mouseY - i.previousMouseY,
              !.previousMouseX = i.mouseX, !.previousMouseY = i.mouseY,
              !.scrollX = 0, !.scrollY = 0]

Input_IsKeyPressed(i, key) ==
    i.keyStates[key] = "Pressed" /\ i.previousKeyStates[key] # "Pressed"

Input_IsKeyReleased(i, key) ==
    i.keyStates[key] # "Pressed" /\ i.previousKeyStates[key] = "Pressed"

Input_IsKeyHeld(i, key) == i.keyStates[key] \in {"Pressed", "Repeat"}

Input_IsMouseButtonPressed(i, button) ==
    /\ i.mouseButtonStates[button] = "Pressed"
    /\ i.previousMouseButtonStates[button] # "Pressed"

Input_IsMouseButtonHeld(i, button) == i.mouseButtonStates[button] = "Pressed"

Input_GLFWKeyCallback(i, key, action) == [i EXCEPT !.keyStates[key] = action]

Input_GLFWMouseButtonCallback(i, button, action) ==
    [i EXCEPT !.mouseButtonStates[button] = action]

\* what the controller reads of the Input object i
InputView(i) ==
    InputOf({k \in InputKeys : Input_IsKeyHeld(i, k)} \cap Keys, i.mouseX, i.mouseY,
            Input_IsMouseButtonHeld(i, "Right"))

\* the actions GLFW sends for a key or button whose last action was last: a
\* press when it is up, a repeat (keys only) or a release when it is down
ActionsAfter(last, repeats) ==
    IF last \in {"None", "Released"} THEN {"Pressed"}
    ELSE IF repeats THEN {"Repeat", "Released"} ELSE {"Released"}

\* the keys and buttons that a press (or its release) adds to or takes from
\* the set fresh
FreshAfter(fresh, name, action) ==
    IF action = "Pressed" THEN fresh \cup {name}
    ELSE IF action = "Released" THEN fresh \ {name}
    ELSE fresh

\* callbacks run inside glfwPollEvents
Polling == hist.phase \in {"PollEvents", "Free"}

GLFWKeyCallback(key, action) ==
    /\ Within /\ Polling
    /\ action \in ActionsAfter(inp.keyStates[key], TRUE)
    /\ inp' = Input_GLFWKeyCallback(inp, key, action)
    /\ hist' = [hist EXCEPT !.op = "GLFWKeyCallback", !.arg = <<key, action>>,
                            !.pre = inp, !.n = @ + 1,
                            !.fresh = FreshAfter(@, key, action)]
    /\ UNCHANGED <<ctl, cam>>

GLFWMouseButtonCallback(button, action) ==
    /\ Within /\ Polling
    /\ action \in ActionsAfter(inp.mouseButtonStates[button], FALSE)
    /\ inp' = Input_GLFWMouseButtonCallback(inp, button, action)
    /\ hist' = [hist EXCEPT !.op = "GLFWMouseButtonCallback",
                            !.arg = <<button, action>>,
                            !.pre = inp, !.n = @ + 1,
                            !.fresh = FreshAfter(@, button, action)]
    /\ UNCHANGED <<ctl, cam>>

\* Input::Update; in the loop it follows PollEvents and precedes OnUpdate
InputUpdate ==
    /\ Within /\ Polling
    /\ inp' = Input_Update(inp)
    /\ hist' = [hist EXCEPT !.op = "InputUpdate", !.arg = 0, !.pre = inp,
                            !.n = @ + 1,
                            !.phase = IF @ = "Free" THEN "Free" ELSE "OnUpdate"]
    /\ UNCHANGED <<ctl, cam>>

\* the demo's reaction to key 2: third person about the centre
OnKey2(w, i) ==
    IF Input_IsKeyPressed(i, "2")
    THEN Controller_SetTarget(Controller_SetMode(w, "ThirdPerson"), <<0, One, 0>>)
    ELSE w

\* the demo's reaction to key X: a shake of 0.5 for a second
OnKeyX(w, i) ==
    IF Input_IsKeyPressed(i, "X") THEN Controller_AddShake(w, One \div 2, One) ELSE w

\* ShooterCameraDemo::OnUpdate: the controller's Update, then the keys
Demo_OnUpdate(w, i, deltaTime) ==
    OnKeyX(OnKey2(Controller_Update(w, InputView(i), deltaTime, Vec3Zero), i), i)

OnUpdate(deltaTime) ==
    /\ Within /\ hist.phase = "OnUpdate"
    /\ ctl' = Demo_OnUpdate(World, inp, deltaTime).ctl
    /\ cam' = Demo_OnUpdate(World, inp, deltaTime).cam
    /\ hist' = [hist EXCEPT !.op = "OnUpdate", !.arg = deltaTime, !.pre = inp,
                            !.n = @ + 1, !.phase = "PollEvents",
                            !.delivered = hist.fresh, !.fresh = {},
                            !.seen = {k \in InputKeys : Input_IsKeyPressed(inp, k)}
                                     \cup {b \in MouseButtons :
                                               Input_IsMouseButtonPressed(inp, b)}]
    /\ UNCHANGED inp

InitInput(phase, max) ==
    /\ ctl = ReadyWorld(<<0, 2 * One, 5 * One>>).ctl
    /\ cam = ReadyWorld(<<0, 2 * One, 5 * One>>).cam
    /\ inp = Input_New
    /\ hist = [op |-> "Init", arg |-> 0, pre |-> Input_New, n |-> 0, max |-> max,
               phase |-> phase, fresh |-> {}, delivered |-> {}, seen |-> {}]

InputEvents ==
    \/ \E key \in InputKeys, action \in KeyStates : GLFWKeyCallback(key, action)
    \/ \E button \in MouseButtons, action \in KeyStates :
           GLFWMouseButtonCallback(button, action)

-----------------------------------------------------------------------------
(* The game loop: PollEvents, Input::Update, OnUpdate, frame after frame.   *)

MaxLoopSteps == 7

InitLoop == InitInput("PollEvents", MaxLoopSteps)

NextLoop ==
    \/ InputEvents
    \/ InputUpdate
    \/ OnUpdate(16)

SpecLoop == InitLoop /\ [][NextLoop]_vars

\* C22: IsKeyPressed and IsMouseButtonPressed are edge-triggered as game code
\* sees them: the OnUpdate of the frame whose PollEvents delivered the press of
\* a key (still down) finds the query true for it, and the OnUpdate of every
\* other frame finds it false.
C22_PressedSeenOnce == hist.op = "OnUpdate" => hist.seen = hist.delivered

-----------------------------------------------------------------------------
(* Key and button events and Input::Update in any order.                    *)

MaxInputSteps == 4

InitFree == InitInput("Free", MaxInputSteps)

NextFree ==
    \/ InputEvents
    \/ InputUpdate

SpecFree == InitFree /\ [][NextFree]_vars

\* C30: for every key and every sequence of press, repeat and release events
\* interleaved with Input::Update calls, IsKeyReleased(key) and IsKeyHeld(key)
\* are never both true.
C30_ReleasedNotHeld ==
    \A key \in InputKeys : ~(Input_IsKeyReleased(inp, key) /\ Input_IsKeyHeld(inp, key))

-----------------------------------------------------------------------------
(* The end of a shake.                                                      *)

\* C23: whenever the shake update runs with shakeTimer at or below zero, all
\* shake state is zero afterwards (shakeIntensity, shakeDuration, shakeTimer
\* and shakeOffset), whatever the damping did to the intensity while the shake
\* ran, so that a shake added after an earlier one has finished lasts its own
\* duration.
C23_ExpiredShakeIsCleared ==
    /\ (hist.op = "Update" /\ UpdateRuns(hist.pre) /\ hist.pre.ctl.shakeTimer <= 0) =>
           /\ ctl.shakeIntensity = 0 /\ ctl.shakeDuration = 0
           /\ ctl.shakeTimer = 0 /\ ctl.shakeOffset = Vec3Zero
    /\ (hist.op = "AddShake" /\ hist.pre.ctl.shakeTimer <= 0
            /\ hist.prev[1] = "Update") =>
           ctl.shakeTimer = Max(0, hist.arg[2])

-----------------------------------------------------------------------------
(* Mouse look switched off and on again.                                    *)

MaxLookSteps == 5

LookInputs ==
    { IdleInput, InputOf({}, 460 * One, 330 * One, FALSE) }

InitLook ==
    \E in \in LookInputs :
        InitOf(ReadyWorld(<<0, 2 * One, 5 * One>>), in, MaxLookSteps)

\* the cursor moves while the input is disabled; SetInputEnabled is called to
\* change the flag
NextLook ==
    \/ \E in \in LookInputs : ~ctl.inputEnabled /\ InputEvent(in)
    \/ Update(100, Vec3Zero)
    \/ \E enabled \in BOOLEAN : ctl.inputEnabled # enabled /\ SetInputEnabled(enabled)
    \/ Reset

SpecLook == InitLook /\ [][NextLook]_vars

\* the last call was the first Update since the construction, since a Reset
\* or since the input was enabled again
FirstUpdateSince ==
    /\ hist.op = "Update" /\ UpdateRuns(hist.pre)
    /\ \/ hist.prev[1] \in {"Init", "Reset"}
       \/ hist.prev = <<"SetInputEnabled", TRUE>>

\* C24: the first mouse sample processed after look is enabled or enabled again
\* causes no rotation, however far the cursor is from where it was last
\* recorded: in the first Update after the construction, after Reset, and after
\* SetInputEnabled(false) and SetInputEnabled(true) with the mouse moved in
\* between.
C24_FirstSampleAfterEnable ==
    FirstUpdateSince =>
        /\ cam.Yaw = hist.pre.cam.Yaw
        /\ cam.Pitch = hist.pre.cam.Pitch
        /\ cam.Front = hist.pre.cam.Front

-----------------------------------------------------------------------------
(* The flags after an Update.                                               *)

\* C25: after every Update that is not a no-op the transient flags mirror the
\* input sampled in it: isSprinting is IsKeyHeld(LEFT_SHIFT), isCrouching is
\* IsKeyHeld(LEFT_CONTROL) and isAiming is IsMouseButtonHeld(Right), so that a
\* StartAiming, StartSprinting or StartCrouching made without the key or button
\* held is undone by the next Update.
C25_FlagsMirrorInput ==
    (hist.op = "Update" /\ UpdateRuns(hist.pre)) =>
        /\ ctl.isSprinting = ("LEFT_SHIFT" \in inp.keys)
        /\ ctl.isCrouching = ("LEFT_CONTROL" \in inp.keys)
        /\ ctl.isAiming = inp.rightButton

\* the Update after a StartAiming made with the button up: the aim is ended
\* and the target FOV is back at the default
C25_Witness ==
    /\ hist.op = "Update" /\ UpdateRuns(hist.pre)
    /\ hist.prev[1] = "StartAiming"
    /\ hist.pre.ctl.isAiming
    /\ ~inp.rightButton
    /\ ~ctl.isAiming
    /\ ctl.targetFOV = ctl.settings.defaultFOV

-----------------------------------------------------------------------------
(* The direction keys.                                                      *)

MaxKeySteps == 3

KeyInputs ==
    { IdleInput,
      InputOf({"SPACE"}, 400 * One, 300 * One, FALSE),
      InputOf({"LEFT_CONTROL"}, 400 * One, 300 * One, FALSE),
      InputOf({"W", "LEFT_CONTROL"}, 400 * One, 300 * One, FALSE) }

InitKey == InitOf(ReadyWorld(<<0, 2 * One, 5 * One>>), IdleInput, MaxKeySteps)

NextKey ==
    \/ \E b \in BOOLEAN : SetSmoothingEnabled(b)
    \/ \E in \in KeyInputs : InputEvent(in)
    \/ Update(100, Vec3Zero)

SpecKey == InitKey /\ [][NextKey]_vars

\* an Update that ran with smoothing disabled and only the key held
UpdateWithOnly(key) ==
    /\ hist.op = "Update" /\ UpdateRuns(hist.pre)
    /\ ~hist.pre.ctl.smoothingEnabled
    /\ inp.keys = {key}

\* C26: every held direction key contributes to the movement vector: with only
\* the move-down key (LEFT CONTROL) held, an Update with smoothing disabled
\* moves the camera downward, opposite to the direction the move-up key (SPACE)
\* moves it, and sets the crouch flag.
C26_MoveDownKeyMoves ==
    /\ UpdateWithOnly("SPACE") => cam.Position[2] > hist.pre.cam.Position[2]
    /\ UpdateWithOnly("LEFT_CONTROL") =>
           /\ cam.Position[2] < hist.pre.cam.Position[2]
           /\ ctl.isCrouching

-----------------------------------------------------------------------------
(* Shakes of any intensity and duration.                                    *)

MaxAnySteps == 4

\* AddShake arguments, with zero and negative intensities and durations
AnyShakeArgs ==
    { <<One, 500>>, <<300, 200>>, <<One, 0>>, <<One, -200>>, <<-500, 500>>, <<0, 0>> }

\* frames of 0 s, 0.1 s and 0.6 s
AnyFrames == {0, 100, 600}

InitAny == InitOf(ReadyWorld(<<0, 2 * One, 5 * One>>), IdleInput, MaxAnySteps)

NextAny ==
    \/ \E a \in AnyShakeArgs : AddShake(a[1], a[2])
    \/ \E dt \in AnyFrames : Update(dt, <<One, -One, 500>>)
    \/ ClearShake
    \/ Reset

SpecAny == InitAny /\ [][NextAny]_vars

\* C27: in every state reachable through AddShake with any intensity and any
\* duration (zero and negative included), ClearShake, Reset and Update with a
\* frame time of zero or more, shakeDuration is not negative, shakeTimer is at
\* most shakeDuration, and a positive shakeTimer implies a positive
\* shakeDuration, so that the shake update never divides by zero.
C27_ShakeInvariants ==
    /\ ctl.shakeDuration >= 0
    /\ ctl.shakeTimer <= ctl.shakeDuration
    /\ ctl.shakeTimer > 0 => ctl.shakeDuration > 0
    /\ ctl.shakeOffset # NaNVec

\* the shake update divided by shakeDuration in a frame that followed an
\* AddShake with a zero or negative duration
C27_Witness ==
    /\ hist.op = "Update"
    /\ hist.pre.ctl.shakeTimer > 0
    /\ hist.shake.added /\ hist.shake.duration <= 0

-----------------------------------------------------------------------------
(* The projection the application chose.                                    *)

MaxProjSteps == 4

\* the application calls SetPerspective with its own near and far planes
CameraSetPerspectiveWith(fov, nearPlane, farPlane) ==
    /\ Within
    /\ Called("SetPerspective", <<fov, nearPlane, farPlane>>,
              OnCamera(World, Camera_SetPerspective(cam, fov, cam.AspectRatio,
                                                    nearPlane, farPlane)),
              OnCamera(hist.unshaken,
                       Camera_SetPerspective(hist.unshaken.cam, fov, cam.AspectRatio,
                                             nearPlane, farPlane)),
              hist.shake)

InitProj == InitOf(ReadyWorld(<<0, 2 * One, 5 * One>>), IdleInput, MaxProjSteps)

NextProj ==
    \/ CameraSetPerspectiveWith(75 * One, One \div 2, 500 * One)
    \/ CameraSetOrthographic(-10 * One, 10 * One, -10 * One, 10 * One, One, 50 * One)
    \/ Initialize(TRUE)
    \/ \E in \in FovInputs : InputEvent(in)
    \/ Update(100, Vec3Zero)

SpecProj == InitProj /\ [][NextProj]_vars

\* C28: the controller changes only the FOV among the camera's projection
\* parameters: after Initialize and after any Update, frames of an aim or
\* sprint FOV transition included, the camera's projection type and its near
\* and far planes are the ones the application last set with SetPerspective or
\* SetOrthographic.
C28_ProjectionKept ==
    hist.op \in {"Initialize", "Update"} =>
        /\ cam.Type = hist.pre.cam.Type
        /\ cam.NearPlane = hist.pre.cam.NearPlane
        /\ cam.FarPlane = hist.pre.cam.FarPlane

-----------------------------------------------------------------------------
(* The controller's FOV and the camera's.                                   *)

MaxAgreeSteps == 4

InitAgree == InitOf(ReadyWorld(<<0, 2 * One, 5 * One>>), IdleInput, MaxAgreeSteps)

NextAgree ==
    \/ \E in \in FovInputs : InputEvent(in)
    \/ Update(100, Vec3Zero)
    \/ Reset
    \/ SetFOV(50 * One)
    \/ StartAiming
    \/ StopAiming
    \/ StartSprinting
    \/ StopSprinting

SpecAgree == InitAgree /\ [][NextAgree]_vars

\* C29: once Initialize has been called on a controller with a camera, the FOV
\* the controller reports and the FOV the camera uses agree: after any
\* sequence of Update, Reset, SetFOV and Start/Stop aim/sprint calls,
\* camera.GetZoom() equals controller.GetCurrentFOV().
C29_ZoomIsCurrentFov == cam.Zoom = ctl.currentFOV

====
